---- MODULE Spec2Model ----
\* The AI gateway client of CRA AI Assistant V3.0 (GLMService.ts): the
\* sliding-window RateLimiter, callWithRetry with its error classification
\* and backoff, and the transport callAPI, as one state machine over a
\* shared millisecond clock.  Strings are sequences of one-character
\* strings so that includes() and the regular expressions of the source are
\* computed on the text the code builds.
EXTENDS Integers, Sequences, FiniteSets, TLC

\* ---------------------------------------------------------------- bounds
\* number of logical requests (callWithRetry invocations) a run may issue
NumCalls ==
  3

\* number of free clock steps of a run (timer expiries are not counted)
MaxTicks ==
  1

\* ------------------------------------------------------ program constants
\* GLMService constructor: windowMs: 60000
WindowMs ==
  60000

\* GLMService constructor: config.maxRetries || 3
DefaultMaxRetries ==
  3

\* GLMService constructor: config.maxRequestsPerMinute || 60
DefaultMaxRequests ==
  60

\* GLMService constructor: config.timeout || 120000
DefaultTimeout ==
  120000

\* callWithRetry: const baseDelay = 1000 * Math.pow(2, attempt)
BaseDelayMs ==
  1000

\* callWithRetry: const jitter = Math.random() * 500
JitterMs ==
  500

\* parseJSONResponse: response.substring(0, 1000)
ExcerptLimit ==
  1000

\* ------------------------------------------------------------------ text
\* callAPI: `API returned status ${res.statusCode}: ${data}`
StatusPrefix ==
  <<"A", "P", "I", " ", "r", "e", "t", "u", "r", "n", "e", "d", " ", "s", "t", "a", "t", "u", "s", " ">>

StatusSep ==
  <<":", " ">>

\* callAPI: `Network error: ${error.message}`
NetworkPrefix ==
  <<"N", "e", "t", "w", "o", "r", "k", " ", "e", "r", "r", "o", "r", ":", " ">>

\* callAPI: `Request timeout after ${this.config.timeout}ms`
TimeoutPrefix ==
  <<"R", "e", "q", "u", "e", "s", "t", " ", "t", "i", "m", "e", "o", "u", "t", " ", "a", "f", "t", "e", "r", " ">>

TimeoutSuffix ==
  <<"m", "s">>

EmptyContentMessage ==
  <<"E", "m", "p", "t", "y", " ", "r", "e", "s", "p", "o", "n", "s", "e", " ", "c", "o", "n", "t", "e", "n", "t", " ", "f", "r", "o", "m", " ", "A", "P", "I">>

\* message of the SyntaxError JSON.parse raises on a cut response envelope
EnvelopeParseMessage ==
  <<"U", "n", "e", "x", "p", "e", "c", "t", "e", "d", " ", "e", "n", "d", " ", "o", "f", " ", "J", "S", "O", "N", " ", "i", "n", "p", "u", "t">>

\* the three local errors of callAPI / generateToken (a CJK character is written #)
KeyMissingMessage ==
  <<"A", "P", "I", " ", "#", "#", "#", "#", "#">>

KeyFormatMessage ==
  <<"A", "P", "I", " ", "#", "#", "#", "#", "#", "#">>

TokenFormatMessage ==
  <<"#", "#", "#", "A", "P", "I", "#", "#", "#", "#">>

\* the literal patterns of isRetryableError, lower case (they are matched with /i)
PatSocketHangUp ==
  <<"s", "o", "c", "k", "e", "t", " ", "h", "a", "n", "g", " ", "u", "p">>

PatTimeout ==
  <<"t", "i", "m", "e", "o", "u", "t">>

PatNetwork ==
  <<"n", "e", "t", "w", "o", "r", "k">>

PatFetchFailed ==
  <<"f", "e", "t", "c", "h", " ", "f", "a", "i", "l", "e", "d">>

\* the substrings callWithRetry looks for in error.message
Pat401 ==
  <<"4", "0", "1">>

Pat403 ==
  <<"4", "0", "3">>

Pat400 ==
  <<"4", "0", "0">>

\* messages of the errors node's https client emits
MsgReadReset ==
  <<"r", "e", "a", "d", " ", "E", "C", "O", "N", "N", "R", "E", "S", "E", "T">>

MsgSocketHangUp ==
  <<"s", "o", "c", "k", "e", "t", " ", "h", "a", "n", "g", " ", "u", "p">>

MsgConnectTimedOut ==
  <<"c", "o", "n", "n", "e", "c", "t", " ", "E", "T", "I", "M", "E", "D", "O", "U", "T", " ", "1", ".", "2", ".", "3", ".", "4", ":", "4", "4", "3">>

MsgDnsNotFound ==
  <<"g", "e", "t", "a", "d", "d", "r", "i", "n", "f", "o", " ", "E", "N", "O", "T", "F", "O", "U", "N", "D", " ", "o", "p", "e", "n", ".", "b", "i", "g", "m", "o", "d", "e", "l", ".", "c", "n">>

\* response bodies the server may send with an error status
BodyEmpty ==
  << >>

BodyQuota ==
  <<"q", "u", "o", "t", "a", " ", "1", "4", "0", "1">>

BodyForbidden ==
  <<"c", "o", "d", "e", " ", "4", "0", "3">>

BodyLimit ==
  <<"l", "i", "m", "i", "t", " ", "4", "0", "0">>

BodyGateway ==
  <<"u", "p", "s", "t", "r", "e", "a", "m", " ", "5", "0", "2">>

BodyBusy ==
  <<"N", "e", "t", "w", "o", "r", "k", " ", "b", "u", "s", "y">>

\* credential strings: empty, without separator, id.secret, two separators
KeyEmpty ==
  << >>

KeyNoDot ==
  <<"a", "b">>

KeyValid ==
  <<"a", ".", "b">>

KeyTwoDots ==
  <<"a", ".", "b", ".", "c">>

\* letters, for the case-insensitive match
UpperCase ==
  <<"A", "B", "C", "D", "E", "F", "G", "H", "I", "J", "K", "L", "M", "N", "O", "P", "Q", "R", "S", "T", "U", "V", "W", "X", "Y", "Z">>

LowerCase ==
  <<"a", "b", "c", "d", "e", "f", "g", "h", "i", "j", "k", "l", "m", "n", "o", "p", "q", "r", "s", "t", "u", "v", "w", "x", "y", "z">>

DigitChars ==
  <<"0", "1", "2", "3", "4", "5", "6", "7", "8", "9">>

\* Number.prototype.toString as used by the template literals
RECURSIVE Digits(_)
Digits(n) ==
  IF n < 10 THEN <<DigitChars[n + 1]>>
  ELSE Digits(n \div 10) \o <<DigitChars[(n % 10) + 1]>>

\* String.prototype.includes
Includes(s, p) ==
  \E i \in 0..(Len(s) - Len(p)) : SubSeq(s, i + 1, i + Len(p)) = p

\* one character under the /i flag
ToLower(ch) ==
  IF \E i \in 1..Len(UpperCase) : UpperCase[i] = ch
  THEN LowerCase[CHOOSE i \in 1..Len(UpperCase) : UpperCase[i] = ch]
  ELSE ch

\* ToLower on the upper-case letters, tabulated
LowerTable ==
  [ch \in {UpperCase[i] : i \in 1..Len(UpperCase)} |-> ToLower(ch)]

LowerOf(s) ==
  [i \in 1..Len(s) |-> IF s[i] \in DOMAIN LowerTable THEN LowerTable[s[i]] ELSE s[i]]

IsDigit(ch) ==
  \E i \in 1..Len(DigitChars) : DigitChars[i] = ch

\* /5\d\d/.test(s)
Matches5xx(s) ==
  \E i \in 1..(Len(s) - 2) : s[i] = "5" /\ IsDigit(s[i + 1]) /\ IsDigit(s[i + 2])

\* String.prototype.split('.').length
SplitLength(s) ==
  1 + Cardinality({i \in 1..Len(s) : s[i] = "."})

\* String.prototype.trim().length for the credential strings (spaces only)
TrimLength(s) ==
  Cardinality({i \in 1..Len(s) : \E j \in 1..i : \E k \in i..Len(s) : s[j] # " " /\ s[k] # " "})

\* ---------------------------------------------------------------- errors
\* the absent code, category or data
None ==
  "none"

\* new Error(message), optionally with the code node attaches
Error(message, code) ==
  [message |-> message, code |-> code]

\* err(createError(code, category, severity, userMessage, ...))
Err(code, category, severity, userMessage, attempts) ==
  [success |-> FALSE, code |-> code, category |-> category,
   severity |-> severity, userMessage |-> userMessage,
   attempts |-> attempts, data |-> None]

\* ok(result)
Ok(data) ==
  [success |-> TRUE, code |-> None, category |-> None, severity |-> None,
   userMessage |-> None, attempts |-> 0, data |-> data]

\* isRetryableError without the /network/i pattern
isRetryableError_NoNetworkPattern(error) ==
  \/ error.code \in {"ECONNRESET", "ECONNABORTED", "ETIMEDOUT", "ENOTFOUND", "EPIPE", "EAI_AGAIN"}
  \/ Includes(LowerOf(error.message), PatSocketHangUp)
  \/ Includes(LowerOf(error.message), PatTimeout)
  \/ Includes(LowerOf(error.message), PatFetchFailed)
  \/ Matches5xx(error.message)

\* an isRetryableError that takes every error for a transient one
isRetryableError_Always(error) ==
  TRUE

\* GLMService.isRetryableError
isRetryableError(error) ==
  \/ error.code \in {"ECONNRESET", "ECONNABORTED", "ETIMEDOUT", "ENOTFOUND", "EPIPE", "EAI_AGAIN"}
  \/ Includes(LowerOf(error.message), PatSocketHangUp)
  \/ Includes(LowerOf(error.message), PatTimeout)
  \/ Includes(LowerOf(error.message), PatNetwork)
  \/ Includes(LowerOf(error.message), PatFetchFailed)
  \/ Matches5xx(error.message)

\* the authentication test without the 403 case
IsAuthError_Only401(error) ==
  Includes(error.message, Pat401)

\* callWithRetry: error.message.includes('401') || error.message.includes('403')
IsAuthError(error) ==
  Includes(error.message, Pat401) \/ Includes(error.message, Pat403)

\* callWithRetry: error.message.includes('400')
IsBadRequest(error) ==
  Includes(error.message, Pat400)

\* callWithRetry: the order in which the catch block tests the error
Classify(error) ==
  IF IsAuthError(error) THEN "auth"
  ELSE IF IsBadRequest(error) THEN "bad"
  ELSE IF ~isRetryableError(error) THEN "fatal"
  ELSE "retry"

\* a backoff that grows with 2 * attempt instead of 2 ^ attempt
BackoffDelay_Linear(attempt, jitter) ==
  BaseDelayMs * (2 * attempt) + jitter

\* callWithRetry: 1000 * Math.pow(2, attempt) + jitter
BackoffDelay(attempt, jitter) ==
  BaseDelayMs * (2 ^ attempt) + jitter

\* callWithRetry: the user message chosen after the loop
ExhaustedMessage(errorCode) ==
  IF errorCode = "ECONNRESET" THEN "MSG_CONNECTION_RESET"
  ELSE IF errorCode = "ETIMEDOUT" THEN "MSG_TIMEOUT"
  ELSE IF errorCode = "ENOTFOUND" THEN "MSG_DNS"
  ELSE "MSG_NETWORK_GENERIC"

\* ------------------------------------------------------------- transport
\* what the server / the network does with one HTTPS request
HttpOutcome(status, body) ==
  [kind |-> "http", status |-> status, body |-> body, code |-> None, message |-> << >>]

NetOutcome(code, message) ==
  [kind |-> "neterr", status |-> 0, body |-> << >>, code |-> code, message |-> message]

OkOutcome(content) ==
  [kind |-> "ok", status |-> 200, body |-> content, code |-> None, message |-> << >>]

EmptyOutcome ==
  [kind |-> "empty", status |-> 200, body |-> << >>, code |-> None, message |-> << >>]

EnvelopeOutcome ==
  [kind |-> "badjson", status |-> 200, body |-> << >>, code |-> None, message |-> << >>]

TimeoutOutcome ==
  [kind |-> "timeout", status |-> 0, body |-> << >>, code |-> None, message |-> << >>]

\* the attempt that callAPI fails before any request is written
LocalOutcome ==
  [kind |-> "local", status |-> 0, body |-> << >>, code |-> None, message |-> << >>]

Bodies ==
  {BodyEmpty, BodyQuota, BodyForbidden, BodyLimit, BodyGateway, BodyBusy}

Statuses ==
  {400, 401, 403, 404, 429, 500}

NetErrors ==
  {NetOutcome("ECONNRESET", MsgReadReset), NetOutcome("ECONNRESET", MsgSocketHangUp),
   NetOutcome("ETIMEDOUT", MsgConnectTimedOut), NetOutcome("ENOTFOUND", MsgDnsNotFound)}

Contents ==
  {<<"{", "}">>, <<"o", "k">>}

AllOutcomes ==
  {HttpOutcome(s, b) : s \in Statuses, b \in Bodies} \cup NetErrors
    \cup {OkOutcome(c) : c \in Contents} \cup {EmptyOutcome, EnvelopeOutcome, TimeoutOutcome}

\* what the history keeps of an outcome
Label(o) ==
  [kind |-> o.kind, status |-> o.status, code |-> o.code,
   content |-> IF o.kind = "ok" THEN o.body ELSE << >>]

\* callAPI, from the response or the socket event to the rejection it makes
callAPIError(o, timeout) ==
  CASE o.kind = "http" -> Error(StatusPrefix \o Digits(o.status) \o StatusSep \o o.body, None)
    [] o.kind = "badjson" -> Error(EnvelopeParseMessage, None)
    [] o.kind = "empty" -> Error(EmptyContentMessage, None)
    [] o.kind = "neterr" -> Error(NetworkPrefix \o o.message, None)
    [] o.kind = "timeout" -> Error(TimeoutPrefix \o Digits(timeout) \o TimeoutSuffix, None)

\* lastError = null, and a callAPI precheck that throws nothing
NoError ==
  [message |-> << >>, code |-> "NO_ERROR"]

\* the promise of callWithRetry while it is not settled
Pending ==
  [success |-> FALSE, code |-> "PENDING", category |-> None, severity |-> None,
   userMessage |-> None, attempts |-> 0, data |-> None]

\* the request deadlines the runs configure (constructor default included)
Timeouts ==
  {DefaultTimeout, 40000}

Failures ==
  {o \in AllOutcomes : o.kind # "ok"}

\* callAPIError and Classify, tabulated over the outcomes and deadlines
RejectionOf ==
  [o \in Failures, t \in Timeouts |-> callAPIError(o, t)]

ClassOf ==
  [o \in Failures, t \in Timeouts |-> Classify(callAPIError(o, t))]

\* generateToken: parts.length !== 2 throws
generateToken(apiKey) ==
  IF SplitLength(apiKey) # 2 THEN Error(TokenFormatMessage, None) ELSE NoError

\* callAPI, the checks made before the request is written
callAPIPrecheck(apiKey) ==
  IF Len(apiKey) = 0 \/ TrimLength(apiKey) = 0 THEN Error(KeyMissingMessage, None)
  ELSE IF ~Includes(apiKey, <<".">>) THEN Error(KeyFormatMessage, None)
  ELSE generateToken(apiKey)

\* ------------------------------------------------------------------- JSON
\* the characters \s matches and JSON.parse skips, of those the texts hold
Spaces ==
  {" ", "\n"}

\* s.charAt(i - 1): the empty string past either end
At(s, i) ==
  IF i \in 1..Len(s) THEN s[i] ELSE ""

\* the first index at or after i whose character is not in chars
RECURSIVE Skip(_, _, _)
Skip(s, i, chars) ==
  IF At(s, i) \in chars THEN Skip(s, i + 1, chars) ELSE i

\* the least and the greatest element of a non-empty set of indices
Least(S) ==
  CHOOSE x \in S : \A y \in S : x <= y

Greatest(S) ==
  CHOOSE x \in S : \A y \in S : x >= y

\* a JavaScript value: k is its kind, s the characters of a string or a
\* number, keys and items the members of an object or the elements of an
\* array
Value(k, s, keys, items) ==
  [k |-> k, s |-> s, keys |-> keys, items |-> items]

Undefined ==
  Value("undefined", << >>, << >>, << >>)

\* what a parsing step returns: the value and the index after it, or the
\* SyntaxError
Parsed(v, next) ==
  [ok |-> TRUE, v |-> v, next |-> next]

Failed ==
  [ok |-> FALSE, v |-> Undefined, next |-> 0]

\* JSON.parse, a string literal at index i (the texts hold no backslash)
ParseString(s, i) ==
  LET close == {j \in (i + 1)..Len(s) : s[j] = "\""}
      j == Least(close)
  IN IF close = {} THEN Failed
     ELSE IF \E m \in (i + 1)..(j - 1) : s[m] = "\n" THEN Failed
     ELSE Parsed(Value("str", SubSeq(s, i + 1, j - 1), << >>, << >>), j + 1)

\* JSON.parse, a number at index i (the texts hold no exponent)
ParseNumber(s, i) ==
  LET digits == {DigitChars[m] : m \in 1..Len(DigitChars)}
      d == IF At(s, i) = "-" THEN i + 1 ELSE i
      e == Skip(s, d, digits)
      f == IF At(s, e) = "." THEN Skip(s, e + 1, digits) ELSE e
  IN IF e = d \/ (e > d + 1 /\ s[d] = "0") \/ (At(s, e) = "." /\ f = e + 1) THEN Failed
     ELSE Parsed(Value("num", SubSeq(s, i, f - 1), << >>, << >>), f)

\* JSON.parse, the value at index i
RECURSIVE ParseValue(_, _), ParseMembers(_, _, _, _), ParseElements(_, _, _)
ParseValue(s, i) ==
  LET ch == At(s, i)
      j == Skip(s, i + 1, Spaces)
      StartsWith(p) == i + Len(p) - 1 <= Len(s) /\ SubSeq(s, i, i + Len(p) - 1) = p
  IN CASE ch = "{" ->
            IF At(s, j) = "}" THEN Parsed(Value("obj", << >>, << >>, << >>), j + 1)
            ELSE ParseMembers(s, j, << >>, << >>)
       [] ch = "[" ->
            IF At(s, j) = "]" THEN Parsed(Value("arr", << >>, << >>, << >>), j + 1)
            ELSE ParseElements(s, j, << >>)
       [] ch = "\"" -> ParseString(s, i)
       [] ch = "-" \/ IsDigit(ch) -> ParseNumber(s, i)
       [] StartsWith(<<"t", "r", "u", "e">>) ->
            Parsed(Value("true", << >>, << >>, << >>), i + 4)
       [] StartsWith(<<"f", "a", "l", "s", "e">>) ->
            Parsed(Value("false", << >>, << >>, << >>), i + 5)
       [] StartsWith(<<"n", "u", "l", "l">>) ->
            Parsed(Value("null", << >>, << >>, << >>), i + 4)
       [] OTHER -> Failed

\* JSON.parse, the members of an object from the key at index i
ParseMembers(s, i, keys, items) ==
  LET key == IF At(s, i) = "\"" THEN ParseString(s, i) ELSE Failed
      c == Skip(s, key.next, Spaces)
      val == IF key.ok /\ At(s, c) = ":" THEN ParseValue(s, Skip(s, c + 1, Spaces))
             ELSE Failed
      e == Skip(s, val.next, Spaces)
  IN IF ~val.ok THEN Failed
     ELSE IF At(s, e) = ","
     THEN ParseMembers(s, Skip(s, e + 1, Spaces), Append(keys, key.v.s), Append(items, val.v))
     ELSE IF At(s, e) = "}"
     THEN Parsed(Value("obj", << >>, Append(keys, key.v.s), Append(items, val.v)), e + 1)
     ELSE Failed

\* JSON.parse, the elements of an array from the element at index i
ParseElements(s, i, items) ==
  LET val == ParseValue(s, i)
      e == Skip(s, val.next, Spaces)
  IN IF ~val.ok THEN Failed
     ELSE IF At(s, e) = "," THEN ParseElements(s, Skip(s, e + 1, Spaces), Append(items, val.v))
     ELSE IF At(s, e) = "]" THEN Parsed(Value("arr", << >>, << >>, Append(items, val.v)), e + 1)
     ELSE Failed

\* JSON.parse(text): one value, white space around it, and nothing else
JSONParse(text) ==
  LET r == ParseValue(text, Skip(text, 1, Spaces))
  IN IF r.ok /\ Skip(text, r.next, Spaces) = Len(text) + 1 THEN r ELSE Failed

\* v[key]: the last member of that name of an object, undefined otherwise
Lookup(v, key) ==
  LET at == {i \in 1..Len(v.keys) : v.keys[i] = key}
  IN IF v.k = "obj" /\ at # {} THEN v.items[Greatest(at)] ELSE Undefined

\* !v
Falsy(v) ==
  \/ v.k \in {"undefined", "null", "false"}
  \/ v.k = "str" /\ v.s = << >>
  \/ v.k = "num" /\ \A i \in 1..Len(v.s) : v.s[i] \in {"0", "-", "."}

\* ------------------------------------------------------ fixIncompleteJSON
\* step 1: fixed.replace(/,(\s*[}\]])/g, '$1')
RemoveTrailingCommas(fixed) ==
  LET drop == {i \in 1..Len(fixed) :
                 fixed[i] = "," /\ At(fixed, Skip(fixed, i + 1, Spaces)) \in {"}", "]"}}
      keep == (1..Len(fixed)) \ drop
  IN IF drop = {} THEN fixed
     ELSE [k \in 1..Cardinality(keep) |->
             fixed[CHOOSE i \in keep : Cardinality({m \in keep : m <= i}) = k]]

\* step 2: with an odd number of quotes and a quote before the last one,
\* the text is cut after the last quote and a quote is appended
CloseString(fixed) ==
  LET quotes == {i \in 1..Len(fixed) : fixed[i] = "\""}
  IN IF Cardinality(quotes) % 2 # 0 /\ Cardinality(quotes) > 1
     THEN SubSeq(fixed, 1, Greatest(quotes)) \o <<"\"">>
     ELSE fixed

\* step 3: fixed.replace(/,\s*"[^"]*:\s*[^,}\]]*$/, ''): the match starts
\* at the first comma that is followed by white space, a quote, a run
\* without quotes up to a colon, and then no `,`, `}` or `]` to the end
DropTrailingProperty(fixed) ==
  LET n == Len(fixed)
      starts == {i \in 1..n :
                   /\ fixed[i] = ","
                   /\ LET q == Skip(fixed, i + 1, Spaces)
                      IN /\ At(fixed, q) = "\""
                         /\ \E j \in (q + 1)..n :
                              /\ fixed[j] = ":"
                              /\ \A x \in (q + 1)..(j - 1) : fixed[x] # "\""
                              /\ \A x \in (j + 1)..n : fixed[x] \notin {",", "}", "]"}}
  IN IF starts = {} THEN fixed ELSE SubSeq(fixed, 1, Least(starts) - 1)

\* step 4: the missing `]` are appended, and then the missing `}`
CloseBrackets(fixed) ==
  LET Count(ch) == Cardinality({i \in 1..Len(fixed) : fixed[i] = ch})
      Closers(ch, missing) == [i \in 1..missing |-> ch]
  IN fixed \o Closers("]", Count("[") - Count("]")) \o Closers("}", Count("{") - Count("}"))

\* GLMService.fixIncompleteJSON
fixIncompleteJSON(jsonStr) ==
  CloseBrackets(DropTrailingProperty(CloseString(RemoveTrailingCommas(jsonStr))))

\* ------------------------------------------------------ parseJSONResponse
\* the grave accent; the character itself cannot be written in a string here
Backtick ==
  "U+0060"

\* the Markdown fence of three grave accents
Fence ==
  <<Backtick, Backtick, Backtick>>

JsonFence ==
  Fence \o <<"j", "s", "o", "n">>

Occurrences(s, p) ==
  {i \in 1..(Len(s) - Len(p) + 1) : SubSeq(s, i, i + Len(p) - 1) = p}

\* response.match(/<open>\s*([\s\S]*?)\s*```/): group 1 of the leftmost
\* match. The body starts after the white space that follows the opener
\* and ends before the white space that precedes the next fence.
FencedBody(response, open) ==
  LET starts == {i \in Occurrences(response, open) :
                   \E c \in Occurrences(response, Fence) : c >= i + Len(open)}
      p == Skip(response, Least(starts) + Len(open), Spaces)
      c == Least({c \in Occurrences(response, Fence) : c >= p})
      e == Least({e \in p..c : \A x \in e..(c - 1) : response[x] \in Spaces})
  IN IF starts = {} THEN [found |-> FALSE, text |-> << >>]
     ELSE [found |-> TRUE, text |-> SubSeq(response, p, e - 1)]

\* response.match(/\{[\s\S]*\}/): from the first `{` to the last `}`
ObjectSpan(response) ==
  LET open == {i \in 1..Len(response) : response[i] = "{"}
      close == {i \in 1..Len(response) : response[i] = "}" /\ i > Least(open)}
  IN IF open = {} \/ close = {} THEN [found |-> FALSE, text |-> << >>]
     ELSE [found |-> TRUE, text |-> SubSeq(response, Least(open), Greatest(close))]

\* a selection that looks for a generic fence before a ```json fence
SelectText_CodeFenceFirst(response) ==
  LET jsonMatch == FencedBody(response, JsonFence)
      codeMatch == FencedBody(response, Fence)
      objectMatch == ObjectSpan(response)
  IN IF codeMatch.found THEN [rule |-> "code", jsonStr |-> codeMatch.text]
     ELSE IF jsonMatch.found THEN [rule |-> "json", jsonStr |-> jsonMatch.text]
     ELSE IF objectMatch.found THEN [rule |-> "object", jsonStr |-> objectMatch.text]
     ELSE [rule |-> "whole", jsonStr |-> response]

\* parseJSONResponse: the text that is parsed, and the rule that chose it
SelectText(response) ==
  LET jsonMatch == FencedBody(response, JsonFence)
      codeMatch == FencedBody(response, Fence)
      objectMatch == ObjectSpan(response)
  IN IF jsonMatch.found THEN [rule |-> "json", jsonStr |-> jsonMatch.text]
     ELSE IF codeMatch.found THEN [rule |-> "code", jsonStr |-> codeMatch.text]
     ELSE IF objectMatch.found THEN [rule |-> "object", jsonStr |-> objectMatch.text]
     ELSE [rule |-> "whole", jsonStr |-> response]

\* the body of a try block: JSON.parse(text), then Object.keys(parsed) for
\* the log line, which throws a TypeError on null
TryParse(text) ==
  LET r == JSONParse(text)
  IN IF r.ok /\ r.v.k # "null" THEN r ELSE Failed

\* GLMService.parseJSONResponse: the Result, and how it was reached
parseJSONResponse(text) ==
  LET sel == SelectText(text)
      first == TryParse(sel.jsonStr)
      fixed == fixIncompleteJSON(sel.jsonStr)
      second == TryParse(fixed)
      excerpt == SubSeq(text, 1, IF Len(text) < ExcerptLimit THEN Len(text) ELSE ExcerptLimit)
  IN IF first.ok
     THEN [fn |-> "parseJSONResponse", rule |-> sel.rule, jsonStr |-> sel.jsonStr,
           repairs |-> 0, parses |-> 1, fixed |-> << >>, success |-> TRUE, code |-> None,
           data |-> first.v, excerpt |-> << >>]
     ELSE IF second.ok
     THEN [fn |-> "parseJSONResponse", rule |-> sel.rule, jsonStr |-> sel.jsonStr,
           repairs |-> 1, parses |-> 2, fixed |-> fixed, success |-> TRUE, code |-> None,
           data |-> second.v, excerpt |-> << >>]
     ELSE [fn |-> "parseJSONResponse", rule |-> sel.rule, jsonStr |-> sel.jsonStr,
           repairs |-> 1, parses |-> 2, fixed |-> fixed, success |-> FALSE,
           code |-> "AI_PARSE_FAILED", data |-> Undefined, excerpt |-> excerpt]

\* valid documents of the shapes the prompts ask for: objects that hold
\* arrays of objects and string values
Documents ==
  {<<"{", "\"", "a", "\"", ":", "[", "{", "\"", "b", "\"", ":", "\"", "c", "\"", "}", "]", "}">>,
   <<"{", "\"", "a", "\"", ":", "\"", "b", "\"", ",", "\"", "c", "\"", ":", "[", "\"", "d", "\"", "]", "}">>,
   <<"{", "\"", "v", "\"", ":", "[", "{", "\"", "p", "\"", ":", "[", "\"", "x", "\"", "]", "}", "]", "}">>}

\* more valid JSON (brackets and commas inside strings, scalars, a
\* top-level array, white space), texts that are not JSON, the truncated
\* `{"a": 1, "b": [1, 2,` among them, and responses with Markdown fences
\* and with prose around the object
Texts ==
  {<<"{", "\"", "a", "\"", ":", "\"", "{", "\"", "}">>,
   <<"{", "\"", "a", "\"", ":", "\"", ",", "}", "\"", "}">>,
   <<"[", "\"", "a", ",", "]", "\"", "]">>,
   <<"{", "\"", "a", "\"", ":", "1", "}">>,
   <<"[", "{", "\"", "a", "\"", ":", "1", "}", ",", "{", "\"", "b", "\"", ":", "2", "}", "]">>,
   <<"n", "u", "l", "l">>,
   <<"{", "}">>,
   <<"[", "]">>,
   <<"\"", "a", "\"">>,
   <<"1", "2">>,
   <<"t", "r", "u", "e">>,
   <<" ", "{", "\"", "a", "\"", ":", " ", "[", "1", ",", " ", "2", "]", "}", "\n">>,
   <<"{", "\"", "a", "\"", ":", " ", "1", ",", " ", "\"", "b", "\"", ":", " ", "[", "1", ",", " ", "2", ",">>,
   <<"{", "\"", "a", "\"", ":", "1", ",", "\"", "b", "\"", ":", "[", "1", ",", "2">>,
   <<"[", "1", ",", "\"", "a", ":", "b", "\"">>,
   <<"{", "\"", "a", "\"", ":", "1", ",">>,
   <<"{", "\"", "a", "\"", ":", "1", ",", "\"", "b", ":", "2">>,
   <<"o", "k">>,
   << >>,
   <<"{", "\"", "a", "\"", ":", "1", "}", " ", "{", "\"", "b", "\"", ":", "2", "}">>,
   <<"{", "\"", "a", "\"", ":", "0", "1", "}">>,
   <<"{", "\"", "a", "\"", ":", "[", "1", ",", "]", ",", "}">>,
   <<Backtick, Backtick, Backtick, "j", "s", "o", "n", "\n", "{", "\"", "a", "\"", ":", "1", "}", "\n", Backtick, Backtick, Backtick>>,
   <<Backtick, Backtick, Backtick, "\n", "{", "\"", "a", "\"", ":", "1", "}", "\n", Backtick, Backtick, Backtick>>,
   <<"x", " ", "{", "\"", "a", "\"", ":", "1", "}", " ", "y">>,
   <<Backtick, Backtick, Backtick, "j", "s", "o", "n", " ", "{", "\"", "a", "\"", ":", "1", "}", " ", Backtick, Backtick, Backtick, " ", Backtick, Backtick, Backtick, " ", "{", "\"", "b", "\"", ":", "2", "}", " ", Backtick, Backtick, Backtick>>,
   <<Backtick, Backtick, Backtick, " ", "{", "\"", "b", "\"", ":", "2", "}", " ", Backtick, Backtick, Backtick, " ", Backtick, Backtick, Backtick, "j", "s", "o", "n", " ", "{", "\"", "a", "\"", ":", "1", "}", " ", Backtick, Backtick, Backtick>>,
   <<"{", "\"", "c", "\"", ":", "3", "}", " ", Backtick, Backtick, Backtick, "j", "s", "o", "n", " ", "{", "\"", "a", "\"", ":", "1", "}", " ", Backtick, Backtick, Backtick>>,
   <<"{", "\"", "c", "\"", ":", "3", "}", " ", Backtick, Backtick, Backtick, " ", "{", "\"", "a", "\"", ":", "1", "}", " ", Backtick, Backtick, Backtick>>,
   <<Backtick, Backtick, Backtick, "j", "s", "o", "n", " ", "{", "\"", "a", "\"", ":", "1", "}">>,
   <<Backtick, Backtick, Backtick, "j", "s", "o", "n", Backtick, Backtick, Backtick>>,
   <<Backtick, Backtick, Backtick, "j", "s", "o", "n", "\n", "{", "\"", "a", "\"", ":", "[", "1", ",", "\n", Backtick, Backtick, Backtick>>,
   <<Backtick, Backtick, Backtick, "j", "s", "\n", "{", "\"", "a", "\"", ":", "1", "}", "\n", Backtick, Backtick, Backtick>>,
   <<Backtick, Backtick, Backtick, "j", "s", "o", "n", " ", "n", "u", "l", "l", " ", Backtick, Backtick, Backtick>>,
   <<Backtick, Backtick, Backtick, " ", "x", " ", Backtick, Backtick, Backtick>>}

\* responses to the extraction prompts
ExtractTexts ==
  {<<"{", "\"", "i", "n", "c", "l", "u", "s", "i", "o", "n", "C", "r", "i", "t", "e", "r", "i", "a", "\"", ":", "[", "{", "\"", "n", "u", "m", "b", "e", "r", "\"", ":", "\"", "1", "\"", "}", "]", ",", "\"", "e", "x", "c", "l", "u", "s", "i", "o", "n", "C", "r", "i", "t", "e", "r", "i", "a", "\"", ":", "[", "]", "}">>,
   <<"{", "\"", "i", "n", "c", "l", "u", "s", "i", "o", "n", "C", "r", "i", "t", "e", "r", "i", "a", "\"", ":", "\"", "x", "\"", "}">>,
   <<"{", "\"", "e", "x", "c", "l", "u", "s", "i", "o", "n", "C", "r", "i", "t", "e", "r", "i", "a", "\"", ":", "[", "n", "u", "l", "l", "]", "}">>,
   <<"{", "\"", "v", "i", "s", "i", "t", "S", "c", "h", "e", "d", "u", "l", "e", "\"", ":", "[", "{", "\"", "p", "r", "o", "c", "e", "d", "u", "r", "e", "s", "\"", ":", "[", "{", "\"", "n", "a", "m", "e", "\"", ":", "\"", "x", "\"", "}", "]", "}", "]", "}">>,
   <<"{", "\"", "v", "i", "s", "i", "t", "S", "c", "h", "e", "d", "u", "l", "e", "\"", ":", "[", "{", "\"", "a", "s", "s", "e", "s", "s", "m", "e", "n", "t", "s", "\"", ":", "1", "}", "]", "}">>,
   <<"{", "\"", "m", "e", "d", "i", "c", "a", "t", "i", "o", "n", "s", "\"", ":", "[", "{", "\"", "d", "o", "s", "a", "g", "e", "\"", ":", "\"", "1", "\"", "}", "]", "}">>,
   <<"{", "\"", "m", "e", "d", "i", "c", "a", "t", "i", "o", "n", "s", "\"", ":", "{", "}", "}">>,
   <<"{", "\"", "v", "i", "s", "i", "t", "s", "\"", ":", "[", "{", "\"", "s", "t", "a", "t", "u", "s", "\"", ":", "\"", "x", "\"", "}", "]", "}">>,
   <<"{", "\"", "v", "i", "s", "i", "t", "s", "\"", ":", "[", "{", "\"", "_", "a", "i", "E", "x", "t", "r", "a", "c", "t", "e", "d", "\"", ":", "t", "r", "u", "e", ",", "\"", "_", "u", "s", "e", "r", "E", "d", "i", "t", "e", "d", "\"", ":", "t", "r", "u", "e", "}", "]", "}">>,
   <<"{", "\"", "v", "i", "s", "i", "t", "s", "\"", ":", "7", "}">>,
   <<"{", "\"", "i", "t", "e", "m", "s", "\"", ":", "[", "{", "\"", "s", "t", "a", "t", "u", "s", "\"", ":", "\"", "x", "\"", "}", "]", "}">>,
   <<"{", "\"", "s", "u", "b", "j", "e", "c", "t", "N", "u", "m", "b", "e", "r", "\"", ":", "\"", "7", "\"", "}">>,
   <<"{", "}">>,
   <<"o", "k">>,
   <<"n", "u", "l", "l">>,
   <<"[", "1", "]">>}
\* every proper, non-empty prefix of a document
Truncations ==
  UNION {{SubSeq(J, 1, n) : n \in 1..(Len(J) - 1)} : J \in Documents}

\* the texts the two functions are applied to, one of them longer than
\* the excerpt of the parse error
Responses ==
  Truncations \cup Documents \cup Texts \cup {[i \in 1..(ExcerptLimit + 1) |-> "x"]}

\* parseJSONResponse and fixIncompleteJSON, tabulated over the texts
ParseOf ==
  [text \in Responses \cup ExtractTexts |-> parseJSONResponse(text)]

FixOf ==
  [text \in Responses |-> fixIncompleteJSON(text)]

\* ----------------------------------------------------------------- state
VARIABLES
  config,       \* GLMService.config after the constructor's defaults
  initialized,  \* GLMService.initialized
  initResult,   \* what the latest initialize() returned
  requests,     \* RateLimiter.requests
  now,          \* Date.now()
  ticks,        \* free clock steps taken
  pc,           \* where each callWithRetry invocation is suspended
  attempt,      \* callWithRetry: the loop variable
  wakeAt,       \* the expiry of the setTimeout the invocation awaits
  lastError,    \* callWithRetry: lastError
  result,       \* the Result the invocation resolved with
  trace,        \* history: what each fn() call of the invocation met
  httpSent,     \* history: HTTPS requests written by the invocation
  admitLog,     \* history: every timestamp waitForSlot recorded
  entry,        \* history: the window as the invocation found it
  admitAt,      \* history: the timestamp the invocation recorded
  failedAt,     \* history: when the attempt before the backoff wait failed
  startedAt,    \* history: when the attempt in progress began
  glmServiceInstance, \* whether the module-level singleton holds a service
  ipcReply,     \* what the latest ai:* handler that found no service replied
  returned,     \* what the public operation behind each invocation returned
  response,     \* the text handed to parseJSONResponse or fixIncompleteJSON
  parse,        \* what that function did with it
  settingsFile, \* the apiKey of what loadSettings() returns
  settingsReply, \* history: the latest start-up or settings:* step
  editor,       \* VisitScheduleEditor: its state and where its handler is suspended
  store         \* the renderer's useStore state

vars ==
  <<config, initialized, initResult, requests, now, ticks, pc, attempt, wakeAt, lastError,
    result, trace, httpSent, admitLog, entry, admitAt, failedAt, startedAt,
    glmServiceInstance, settingsFile, settingsReply, editor, store, ipcReply, returned, response, parse>>

Calls ==
  1..NumCalls

\* the state outside the service object and its requests
aux ==
  <<glmServiceInstance, settingsFile, settingsReply, editor, store, ipcReply, returned, response, parse>>

\* DEFAULT_SETTINGS.apiKey, which has the form id.secret
DefaultApiKey ==
  <<"d", ".", "k">>

\* DEFAULT_SETTINGS, as its apiKey and one more of its fields
DEFAULT_SETTINGS ==
  [apiKey |-> DefaultApiKey, theme |-> "light"]

\* useStore: the initial state
InitialStore ==
  [protocolFiles |-> << >>, subjectFiles |-> << >>, processingFiles |-> << >>,
   inclusionCriteria |-> << >>, exclusionCriteria |-> << >>, visitSchedule |-> << >>,
   medications |-> << >>, activeWorksheet |-> 1, isProcessing |-> FALSE,
   processingStage |-> None, processingProgress |-> 0,
   settings |-> DEFAULT_SETTINGS, apiKey |-> DEFAULT_SETTINGS.apiKey, lastError |-> None]

\* VisitScheduleEditor before handleExtractSubjectData runs
IdleEditor ==
  [pc |-> "idle", completedFiles |-> << >>, index |-> 0, subjectNumber |-> None,
   calls |-> << >>, allSubjectVisits |-> << >>, allSubjectVisitItems |-> << >>,
   subjectVisits |-> << >>, subjectVisitItems |-> << >>, showPreview |-> FALSE,
   isExtractingSubjects |-> FALSE, lastError |-> None]

\* stands where there is no apiKey
NoKey ==
  <<None>>

\* the whenReady callback has not run
NoSettingsReply ==
  [channel |-> None, apiKey |-> NoKey, success |-> FALSE, code |-> None]

\* no ai:* handler has replied for want of a service
NoReply ==
  [channel |-> None, success |-> FALSE, code |-> None]

\* the public operation has not returned
NotReturned ==
  [op |-> None, threw |-> FALSE, success |-> FALSE, code |-> None, items |-> << >>]

\* neither function has been applied
NoParse ==
  [fn |-> None]

\* no handler has replied, no operation has returned, and one of the
\* texts is about to be parsed
InitAux(texts) ==
  /\ settingsFile = DefaultApiKey
  /\ settingsReply = NoSettingsReply
  /\ editor = IdleEditor
  /\ store = InitialStore
  /\ ipcReply = NoReply
  /\ returned = [c \in Calls |-> NotReturned]
  /\ response \in texts
  /\ parse = NoParse

\* GLMService constructor
GLMService(cfg) ==
  [apiKey |-> cfg.apiKey,
   maxRetries |-> IF cfg.maxRetries = 0 THEN DefaultMaxRetries ELSE cfg.maxRetries,
   maxRequestsPerMinute |-> IF cfg.maxRequestsPerMinute = 0 THEN DefaultMaxRequests
                            ELSE cfg.maxRequestsPerMinute,
   timeout |-> IF cfg.timeout = 0 THEN DefaultTimeout ELSE cfg.timeout]

\* RateLimiter: this.config.maxRequests
maxRequests ==
  config.maxRequestsPerMinute

\* no request was made yet
InitCalls(issued) ==
  /\ requests = << >>
  /\ now = 0
  /\ ticks = 0
  /\ pc = [c \in Calls |-> IF c \in issued THEN "idle" ELSE "unused"]
  /\ attempt = [c \in Calls |-> 0]
  /\ wakeAt = [c \in Calls |-> 0]
  /\ lastError = [c \in Calls |-> NoError]
  /\ result = [c \in Calls |-> Pending]
  /\ trace = [c \in Calls |-> << >>]
  /\ httpSent = [c \in Calls |-> 0]
  /\ admitLog = << >>
  /\ entry = [c \in Calls |-> [full |-> FALSE, oldest |-> 0]]
  /\ admitAt = [c \in Calls |-> -1]
  /\ failedAt = [c \in Calls |-> -1]
  /\ startedAt = [c \in Calls |-> -1]

\* the state after `new GLMService(cfg)`, with the invocations in `issued` to come
InitWith(cfgs, issued) ==
  /\ \E cfg \in cfgs : config = GLMService(cfg)
  /\ glmServiceInstance = TRUE
  /\ InitAux({<< >>})
  /\ initialized = FALSE
  /\ initResult = None
  /\ InitCalls(issued)

\* the state after the settings handlers' createGLMService(cfg) and initialize()
InitializedWith(cfgs, issued) ==
  /\ \E cfg \in cfgs : config = GLMService(cfg)
  /\ glmServiceInstance = TRUE
  /\ InitAux({<< >>})
  /\ initialized = (Len(config.apiKey) # 0)
  /\ initResult = (IF Len(config.apiKey) = 0 THEN "AI_NO_API_KEY" ELSE "ok")
  /\ InitCalls(issued)

\* ------------------------------------------------------------ RateLimiter
\* waitForSlot: this.requests.filter((time) => time > windowStart)
FilterWindow(reqs, t) ==
  SelectSeq(reqs, LAMBDA time : time > t - WindowMs)

\* a wait that ends one millisecond before the oldest request expires
WaitTime_OneShort(reqs, t) ==
  reqs[1] + WindowMs - t - 1

\* waitForSlot: oldestRequest + this.config.windowMs - now
WaitTime(reqs, t) ==
  reqs[1] + WindowMs - t

\* the limit test with > in place of >=
MustWait_AboveLimit(reqs, t) ==
  /\ Len(reqs) > maxRequests
  /\ WaitTime(reqs, t) > 0

\* waitForSlot: whether the invocation suspends on the setTimeout
MustWait(reqs, t) ==
  /\ Len(reqs) >= maxRequests
  /\ WaitTime(reqs, t) > 0

\* the least element of a non-empty list
MinOf(reqs) ==
  CHOOSE x \in {reqs[i] : i \in 1..Len(reqs)} : \A i \in 1..Len(reqs) : x <= reqs[i]

\* ---------------------------------------------------------- callWithRetry
Frame(p, k, w, le, r) ==
  [pc |-> p, attempt |-> k, wakeAt |-> w, lastError |-> le, result |-> r]

Catch_OneMoreAttempt(k, error, cls, jitter, t) ==
  IF cls = "auth"
  THEN Frame("done", k, 0, NoError,
             Err("AI_AUTH_FAILED", "network", "critical", "MSG_AUTH", 0))
  ELSE IF cls = "bad"
  THEN Frame("done", k, 0, NoError,
             Err("AI_BAD_REQUEST", "domain", "critical", "MSG_BAD_REQUEST", 0))
  ELSE IF cls = "fatal"
  THEN Frame("done", k, 0, NoError,
             Err("AI_REQUEST_FAILED", "network", "critical", "MSG_NETWORK_GENERIC", k + 1))
  ELSE IF k < config.maxRetries
  THEN Frame("backoff", k, t + BackoffDelay(k, jitter), error, Pending)
  ELSE Frame("done", k + 1, 0, NoError,
             Err("AI_REQUEST_FAILED", "network", "critical",
                 ExhaustedMessage(error.code), config.maxRetries))

\* callWithRetry: the catch block of attempt k at time t for an error of
\* class cls, and, when the loop ends with it, the code after the loop
Catch(k, error, cls, jitter, t) ==
  IF cls = "auth"
  THEN Frame("done", k, 0, NoError,
             Err("AI_AUTH_FAILED", "network", "critical", "MSG_AUTH", 0))
  ELSE IF cls = "bad"
  THEN Frame("done", k, 0, NoError,
             Err("AI_BAD_REQUEST", "domain", "critical", "MSG_BAD_REQUEST", 0))
  ELSE IF cls = "fatal"
  THEN Frame("done", k, 0, NoError,
             Err("AI_REQUEST_FAILED", "network", "critical", "MSG_NETWORK_GENERIC", k + 1))
  ELSE IF k < config.maxRetries - 1
  THEN Frame("backoff", k, t + BackoffDelay(k, jitter), error, Pending)
  ELSE Frame("done", k + 1, 0, NoError,
             Err("AI_REQUEST_FAILED", "network", "critical",
                 ExhaustedMessage(error.code), config.maxRetries))

\* callWithRetry: `await fn()` of attempt k, up to the point where callAPI
\* has written the request or has thrown
BeginAttempt(c, k, jitter) ==
  LET pre == callAPIPrecheck(config.apiKey)
      f == IF pre = NoError THEN Frame("attempt", k, 0, lastError[c], Pending)
           ELSE Catch(k, pre, Classify(pre), jitter, now)
  IN /\ pc' = [pc EXCEPT ![c] = f.pc]
     /\ attempt' = [attempt EXCEPT ![c] = f.attempt]
     /\ wakeAt' = [wakeAt EXCEPT ![c] = f.wakeAt]
     /\ lastError' = [lastError EXCEPT ![c] = f.lastError]
     /\ result' = [result EXCEPT ![c] = f.result]
     /\ trace' = [trace EXCEPT ![c] = IF pre = NoError THEN @ ELSE Append(@, Label(LocalOutcome))]
     /\ httpSent' = [httpSent EXCEPT ![c] = IF pre = NoError THEN @ + 1 ELSE @]
     /\ startedAt' = [startedAt EXCEPT ![c] = IF f.pc = "done" THEN -1 ELSE now]
     /\ failedAt' = [failedAt EXCEPT ![c] =
          IF f.pc = "backoff" THEN now ELSE IF f.pc = "done" THEN -1 ELSE @]

\* a waitForSlot that records the request twice
RecordRequest_Twice(c, reqs) ==
  /\ requests' = Append(Append(reqs, now), now)
  /\ admitLog' = Append(Append(admitLog, now), now)
  /\ admitAt' = [admitAt EXCEPT ![c] = now]

\* a waitForSlot that records the request at the front of the list
RecordRequest_Front(c, reqs) ==
  /\ requests' = <<now>> \o reqs
  /\ admitLog' = Append(admitLog, now)
  /\ admitAt' = [admitAt EXCEPT ![c] = now]

\* waitForSlot: this.requests.push(Date.now())
RecordRequest(c, reqs) ==
  /\ requests' = Append(reqs, now)
  /\ admitLog' = Append(admitLog, now)
  /\ admitAt' = [admitAt EXCEPT ![c] = now]

\* request c is the next one the caller makes: the requests are numbered
\* in the order in which callWithRetry is invoked
NextCall(c) ==
  /\ glmServiceInstance
  /\ pc[c] = "idle"
  /\ \A d \in 1..(c - 1) : pc[d] # "idle"

\* an initialize() that marks the service initialized whatever the key
initialize_AnyKey ==
  /\ glmServiceInstance
  /\ initialized' = TRUE
  /\ initResult' = (IF Len(config.apiKey) = 0 THEN "AI_NO_API_KEY" ELSE "ok")
  /\ UNCHANGED <<aux, config, requests, now, ticks, pc, attempt, wakeAt, lastError, result,
                 trace, httpSent, admitLog, entry, admitAt, failedAt, startedAt>>

\* GLMService.initialize
initialize ==
  /\ glmServiceInstance
  /\ initialized' = (IF Len(config.apiKey) = 0 THEN initialized ELSE TRUE)
  /\ initResult' = (IF Len(config.apiKey) = 0 THEN "AI_NO_API_KEY" ELSE "ok")
  /\ UNCHANGED <<aux, config, requests, now, ticks, pc, attempt, wakeAt, lastError, result,
                 trace, httpSent, admitLog, entry, admitAt, failedAt, startedAt>>

\* callWithRetry on a service that is not initialized
CallNotInitialized(c) ==
  /\ NextCall(c)
  /\ ~initialized
  /\ pc' = [pc EXCEPT ![c] = "done"]
  /\ result' = [result EXCEPT ![c] =
       Err("AI_NOT_INITIALIZED", "domain", "critical", "MSG_NOT_INITIALIZED", 0)]
  /\ UNCHANGED <<aux, config, initialized, initResult, requests, now, ticks, attempt, wakeAt, lastError,
                 trace, httpSent, admitLog, entry, admitAt, failedAt, startedAt>>

\* callWithRetry entering waitForSlot and finding the window full: it
\* suspends on setTimeout(resolve, waitTime)
CallWaits(c) ==
  /\ NextCall(c)
  /\ initialized
  /\ LET reqs == FilterWindow(requests, now)
     IN /\ MustWait(reqs, now)
        /\ requests' = reqs
        /\ pc' = [pc EXCEPT ![c] = "slotWait"]
        /\ wakeAt' = [wakeAt EXCEPT ![c] = now + WaitTime(reqs, now)]
        /\ entry' = [entry EXCEPT ![c] = [full |-> TRUE, oldest |-> MinOf(reqs)]]
  /\ UNCHANGED <<aux, config, initialized, initResult, now, ticks, attempt, lastError, result,
                 trace, httpSent, admitLog, admitAt, failedAt, startedAt>>

\* callWithRetry passing waitForSlot without suspending, and starting attempt 0
CallAdmitted(c, jitter) ==
  /\ NextCall(c)
  /\ initialized
  /\ LET reqs == FilterWindow(requests, now)
     IN /\ ~MustWait(reqs, now)
        /\ RecordRequest(c, reqs)
        /\ entry' = [entry EXCEPT ![c] =
             [full |-> Len(reqs) >= maxRequests,
              oldest |-> IF Len(reqs) > 0 THEN MinOf(reqs) ELSE 0]]
  /\ BeginAttempt(c, 0, jitter)
  /\ UNCHANGED <<aux, config, initialized, initResult, now, ticks>>

\* a timer whose callback never resolves the awaited promise
TimerDue_NeverResolved(deadline) ==
  FALSE

\* setTimeout: the callback runs once the delay has passed
TimerDue(deadline) ==
  now >= deadline

\* the setTimeout of waitForSlot fires: the timestamp is recorded and
\* attempt 0 starts
SlotTimerFires(c, jitter) ==
  /\ pc[c] = "slotWait"
  /\ TimerDue(wakeAt[c])
  /\ RecordRequest(c, requests)
  /\ BeginAttempt(c, 0, jitter)
  /\ UNCHANGED <<aux, config, initialized, initResult, now, ticks, entry>>

\* the request of the running attempt completes with outcome o: fn()
\* resolves, or rejects and the catch block runs
TransportReturns(c, o, jitter) ==
  /\ pc[c] = "attempt"
  /\ LET f == IF o.kind = "ok" THEN Frame("done", attempt[c], 0, NoError, Ok(o.body))
              ELSE Catch(attempt[c], RejectionOf[o, config.timeout], ClassOf[o, config.timeout], jitter, now)
     IN /\ pc' = [pc EXCEPT ![c] = f.pc]
        /\ attempt' = [attempt EXCEPT ![c] = f.attempt]
        /\ wakeAt' = [wakeAt EXCEPT ![c] = f.wakeAt]
        /\ lastError' = [lastError EXCEPT ![c] = f.lastError]
        /\ result' = [result EXCEPT ![c] = f.result]
        /\ failedAt' = [failedAt EXCEPT ![c] = IF f.pc = "backoff" THEN now ELSE -1]
        /\ startedAt' = [startedAt EXCEPT ![c] = IF f.pc = "done" THEN -1 ELSE @]
  /\ trace' = [trace EXCEPT ![c] = Append(@, Label(o))]
  /\ UNCHANGED <<aux, config, initialized, initResult, requests, now, ticks, httpSent, admitLog, entry,
                 admitAt>>

\* the backoff setTimeout fires: the loop increments attempt and calls fn()
BackoffElapsed(c, jitter) ==
  /\ pc[c] = "backoff"
  /\ TimerDue(wakeAt[c])
  /\ BeginAttempt(c, attempt[c] + 1, jitter)
  /\ UNCHANGED <<aux, config, initialized, initResult, requests, now, ticks, admitLog, entry, admitAt>>

\* ------------------------------------------------------------------ clock
TickSteps ==
  {30000}

\* time passes
Tick(d) ==
  /\ ticks < MaxTicks
  /\ now' = now + d
  /\ ticks' = ticks + 1
  /\ UNCHANGED <<aux, config, initialized, initResult, requests, pc, attempt, wakeAt, lastError, result,
                 trace, httpSent, admitLog, entry, admitAt, failedAt, startedAt>>

PendingTimers ==
  {c \in Calls : pc[c] \in {"slotWait", "backoff"} /\ wakeAt[c] > now}

\* time passes until the next pending timer expires
AdvanceToTimer ==
  /\ PendingTimers # {}
  /\ now' = CHOOSE t \in {wakeAt[c] : c \in PendingTimers} :
              \A c \in PendingTimers : t <= wakeAt[c]
  /\ UNCHANGED <<aux, config, initialized, initResult, requests, ticks, pc, attempt, wakeAt, lastError,
                 result, trace, httpSent, admitLog, entry, admitAt, failedAt, startedAt>>

\* ------------------------------------------------------------------ specs
\* Math.random() * 500, as the whole milliseconds setTimeout keeps
JitterChoices ==
  {0, 499}

Config(apiKey, maxRetries, maxRequestsPerMinute, timeout) ==
  [apiKey |-> apiKey, maxRetries |-> maxRetries,
   maxRequestsPerMinute |-> maxRequestsPerMinute, timeout |-> timeout]

\* constructor arguments (0 stands for an omitted field) of the runs that
\* study one request against every transport outcome
RetryConfigs ==
  {Config(KeyValid, r, 0, t) : r \in 0..2, t \in {0, 40000}}

\* constructor arguments of the runs that study the window; with
\* maxRetries = 1 no request of these runs waits for a backoff
RateConfigs ==
  {Config(KeyValid, 1, m, 0) : m \in 1..2}

\* the transport of the runs that study the window: it answers or resets
RateOutcomes ==
  {OkOutcome(<<"o", "k">>), NetOutcome("ECONNRESET", MsgReadReset)}

\* no other invocation is between its start and its result
Quiet(c) ==
  \A d \in Calls \ {c} : pc[d] \in {"idle", "unused", "done"}

InitRetry ==
  InitWith(RetryConfigs, {1})

NextRetry ==
  \/ initialize
  \/ \E c \in Calls : CallNotInitialized(c)
  \/ \E c \in Calls : \E j \in JitterChoices : CallAdmitted(c, j)
  \/ \E c \in Calls : \E o \in AllOutcomes : \E j \in JitterChoices : TransportReturns(c, o, j)
  \/ \E c \in Calls : \E j \in JitterChoices : BackoffElapsed(c, j)
  \/ \E d \in TickSteps : Tick(d)
  \/ AdvanceToTimer

\* one request at a time, every transport outcome
SpecRetry ==
  InitRetry /\ [][NextRetry]_vars

\* one request against every transport outcome, where every attempt
\* completes, the event loop runs every timer that expired, and time
\* passes only up to the next timer
SpecRetryLive ==
  /\ InitRetry
  /\ [][\/ initialize
        \/ \E c \in Calls : CallNotInitialized(c)
        \/ \E c \in Calls : \E j \in JitterChoices : CallAdmitted(c, j)
        \/ \E c \in Calls : \E o \in AllOutcomes : \E j \in JitterChoices : TransportReturns(c, o, j)
        \/ \E c \in Calls : \E j \in JitterChoices : BackoffElapsed(c, j)
        \/ AdvanceToTimer]_vars
  /\ WF_vars(AdvanceToTimer)
  /\ \A c \in Calls : WF_vars(\E o \in AllOutcomes : \E j \in JitterChoices : TransportReturns(c, o, j))
  /\ \A c \in Calls : WF_vars(\E j \in JitterChoices : BackoffElapsed(c, j))

Init ==
  InitializedWith(RateConfigs, Calls)

Next ==
  \/ \E c \in Calls : CallWaits(c)
  \/ \E c \in Calls : \E j \in JitterChoices : CallAdmitted(c, j)
  \/ \E c \in Calls : \E j \in JitterChoices : SlotTimerFires(c, j)
  \/ \E c \in Calls : \E o \in RateOutcomes : \E j \in JitterChoices : TransportReturns(c, o, j)
  \/ \E d \in TickSteps : Tick(d)
  \/ AdvanceToTimer

\* concurrent requests on one service
Spec ==
  Init /\ [][Next]_vars

NextSeq ==
  \/ \E c \in Calls : Quiet(c) /\ CallWaits(c)
  \/ \E c \in Calls : \E j \in JitterChoices : Quiet(c) /\ CallAdmitted(c, j)
  \/ \E c \in Calls : \E j \in JitterChoices : SlotTimerFires(c, j)
  \/ \E c \in Calls : \E o \in RateOutcomes : \E j \in JitterChoices : TransportReturns(c, o, j)
  \/ \E d \in TickSteps : Tick(d)
  \/ AdvanceToTimer

\* requests issued one at a time, each awaited before the next
SpecSeq ==
  Init /\ [][NextSeq]_vars

\* RateLimiter.reset, which GLMService.resetRateLimiter calls
reset ==
  /\ glmServiceInstance
  /\ requests' = << >>
  /\ UNCHANGED <<aux, config, initialized, initResult, now, ticks, pc, attempt, wakeAt, lastError,
                 result, trace, httpSent, admitLog, entry, admitAt, failedAt, startedAt>>

\* concurrent requests on one service whose window may be reset at any
\* moment
SpecReset ==
  Init /\ [][Next \/ reset]_vars

\* the event loop runs every expired timer, and time does not stop while
\* a timer is pending
Fairness ==
  /\ WF_vars(AdvanceToTimer)
  /\ \A c \in Calls : WF_vars(\E j \in JitterChoices : SlotTimerFires(c, j))

\* concurrent requests, with the scheduling of the event loop
SpecLive ==
  Init /\ [][Next]_vars /\ Fairness

TypeOK ==
  /\ initialized \in BOOLEAN
  /\ \A c \in Calls : pc[c] \in {"unused", "idle", "slotWait", "attempt", "backoff", "done"}
  /\ \A c \in Calls : attempt[c] \in 0..config.maxRetries
  /\ now >= 0

\* ------------------------------------------------- singleton and handlers
\* the fields of a service that does not exist
NoConfig ==
  [apiKey |-> << >>, maxRetries |-> 0, maxRequestsPerMinute |-> 0, timeout |-> 0]

\* createGLMService: the first call constructs the service, a later call
\* returns the one that exists
createGLMService(cfg) ==
  /\ glmServiceInstance' = TRUE
  /\ IF glmServiceInstance
     THEN UNCHANGED <<config, initialized, initResult>>
     ELSE /\ config' = GLMService(cfg)
          /\ initialized' = FALSE
          /\ initResult' = None
  /\ UNCHANGED <<settingsFile, settingsReply, editor, store, ipcReply, returned, response, parse, requests, now, ticks, pc, attempt,
                 wakeAt, lastError, result, trace, httpSent, admitLog, entry, admitAt,
                 failedAt, startedAt>>

\* an updateApiKey that does not clear the initialized flag
updateApiKey_KeepFlag(apiKey) ==
  /\ glmServiceInstance
  /\ config' = [config EXCEPT !.apiKey = apiKey]
  /\ initialized' = (IF Len(apiKey) = 0 THEN initialized ELSE TRUE)
  /\ initResult' = (IF Len(apiKey) = 0 THEN "AI_NO_API_KEY" ELSE "ok")
  /\ UNCHANGED <<aux, requests, now, ticks, pc, attempt, wakeAt, lastError, result,
                 trace, httpSent, admitLog, entry, admitAt, failedAt, startedAt>>

\* GLMService.updateApiKey
updateApiKey(apiKey) ==
  /\ glmServiceInstance
  /\ config' = [config EXCEPT !.apiKey = apiKey]
  /\ initialized' = (Len(apiKey) # 0)
  /\ initResult' = (IF Len(apiKey) = 0 THEN "AI_NO_API_KEY" ELSE "ok")
  /\ UNCHANGED <<aux, requests, now, ticks, pc, attempt, wakeAt, lastError, result,
                 trace, httpSent, admitLog, entry, admitAt, failedAt, startedAt>>

\* the channels setupAIHandlers registers
AiChannels ==
  {"ai:extractCriteria", "ai:extractVisitSchedule", "ai:recognizeMedications", "ai:chat",
   "ai:testConnection", "ai:extractSubjectNumber", "ai:extractSubjectVisits",
   "ai:extractSubjectItems"}

\* an ai:* handler whose getGLMService() returns null
AiHandlerNoService(channel) ==
  /\ ~glmServiceInstance
  /\ ipcReply' = [channel |-> channel, success |-> FALSE, code |-> "AI_NOT_INITIALIZED"]
  /\ UNCHANGED <<glmServiceInstance, settingsFile, settingsReply, editor, store, returned, response, parse, config, initialized,
                 initResult, requests, now, ticks, pc, attempt, wakeAt, lastError, result,
                 trace, httpSent, admitLog, entry, admitAt, failedAt, startedAt>>

\* the credentials of the runs that study the credential
Keys ==
  {KeyEmpty, KeyNoDot, KeyValid, KeyTwoDots}

KeyConfigs ==
  {Config(k, r, 0, 0) : k \in Keys, r \in 1..2}

InitKeys ==
  /\ glmServiceInstance = FALSE
  /\ InitAux({<< >>})
  /\ config = NoConfig
  /\ initialized = FALSE
  /\ initResult = None
  /\ InitCalls({1, 2})

NextKeys ==
  \/ \E cfg \in KeyConfigs : createGLMService(cfg)
  \/ initialize
  \/ \E k \in Keys : updateApiKey(k)
  \/ \E h \in AiChannels : AiHandlerNoService(h)
  \/ \E c \in Calls : Quiet(c) /\ CallNotInitialized(c)
  \/ \E c \in Calls : \E j \in JitterChoices : Quiet(c) /\ CallAdmitted(c, j)
  \/ \E c \in Calls : \E o \in RateOutcomes : \E j \in JitterChoices : TransportReturns(c, o, j)
  \/ \E c \in Calls : \E j \in JitterChoices : BackoffElapsed(c, j)
  \/ AdvanceToTimer

\* the handlers and the service from the start of the process, whatever
\* the credential
SpecKeys ==
  InitKeys /\ [][NextKeys]_vars

\* ------------------------------------------------------ settings handlers
\* a key of spaces, which String.trim() empties
KeyBlank ==
  <<" ">>

\* the keys the renderer sends and settings.json may hold
SettingsKeys ==
  Keys \cup {KeyBlank}

\* settings.apiKey && settings.apiKey.trim().length > 0
NonBlank(apiKey) ==
  \E i \in 1..Len(apiKey) : apiKey[i] \notin Spaces

\* a createGLMService that builds a new service for every config
CreateAndInitialize_NewKeyWins(apiKey) ==
  LET cfg == GLMService(Config(apiKey, 0, 0, 0))
      was == IF glmServiceInstance THEN initialized ELSE FALSE
  IN /\ glmServiceInstance' = TRUE
     /\ config' = cfg
     /\ initialized' = (IF Len(cfg.apiKey) = 0 THEN was ELSE TRUE)
     /\ initResult' = (IF Len(cfg.apiKey) = 0 THEN "AI_NO_API_KEY" ELSE "ok")

\* the statements every settings handler runs on the service:
\* createGLMService({ apiKey }) and then initialize() on what it returned
CreateAndInitialize(apiKey) ==
  LET cfg == IF glmServiceInstance THEN config ELSE GLMService(Config(apiKey, 0, 0, 0))
      was == IF glmServiceInstance THEN initialized ELSE FALSE
  IN /\ glmServiceInstance' = TRUE
     /\ config' = cfg
     /\ initialized' = (IF Len(cfg.apiKey) = 0 THEN was ELSE TRUE)
     /\ initResult' = (IF Len(cfg.apiKey) = 0 THEN "AI_NO_API_KEY" ELSE "ok")

\* what a step did: the key it passed to createGLMService (NoKey: it did
\* not call it) and what it replied
SettingsReply(channel, apiKey, success, code) ==
  [channel |-> channel, apiKey |-> apiKey, success |-> success, code |-> code]

\* app.whenReady().then(...): the service is created for the default key,
\* and after it the handlers are registered
AppReady ==
  /\ settingsReply = NoSettingsReply
  /\ IF Len(DefaultApiKey) # 0
     THEN CreateAndInitialize(DefaultApiKey)
     ELSE UNCHANGED <<glmServiceInstance, config, initialized, initResult>>
  /\ settingsReply' = SettingsReply("app:whenReady", DefaultApiKey, initialized', None)
  /\ UNCHANGED <<settingsFile, editor, store, ipcReply, returned, response, parse, requests, now, ticks, pc,
                 attempt, wakeAt, lastError, result, trace, httpSent, admitLog, entry,
                 admitAt, failedAt, startedAt>>

\* ipcMain.handle('settings:get')
SettingsGet ==
  /\ settingsReply # NoSettingsReply
  /\ IF NonBlank(settingsFile)
     THEN /\ CreateAndInitialize(settingsFile)
          /\ settingsReply' = SettingsReply("settings:get", settingsFile, TRUE, None)
     ELSE /\ UNCHANGED <<glmServiceInstance, config, initialized, initResult>>
          /\ settingsReply' = SettingsReply("settings:get", NoKey, TRUE, None)
  /\ UNCHANGED <<settingsFile, editor, store, ipcReply, returned, response, parse, requests, now, ticks, pc,
                 attempt, wakeAt, lastError, result, trace, httpSent, admitLog, entry,
                 admitAt, failedAt, startedAt>>

\* ipcMain.handle('settings:set') with settings whose apiKey is apiKey
\* (NoKey: it has no apiKey); written: writeFileSync did not throw
SettingsSet(apiKey, written) ==
  /\ settingsReply # NoSettingsReply
  /\ IF ~written
     THEN /\ UNCHANGED <<settingsFile, glmServiceInstance, config, initialized, initResult>>
          /\ settingsReply' = SettingsReply("settings:set", NoKey, FALSE, "SETTINGS_SET_FAILED")
     ELSE IF apiKey = NoKey
     THEN /\ UNCHANGED <<settingsFile, glmServiceInstance, config, initialized, initResult>>
          /\ settingsReply' = SettingsReply("settings:set", NoKey, TRUE, None)
     ELSE /\ settingsFile' = apiKey
          /\ CreateAndInitialize(apiKey)
          /\ settingsReply' =
               IF Len(config'.apiKey) = 0
               THEN SettingsReply("settings:set", apiKey, FALSE, "AI_NO_API_KEY")
               ELSE SettingsReply("settings:set", apiKey, TRUE, None)
  /\ UNCHANGED <<editor, store, ipcReply, returned, response, parse, requests, now, ticks, pc, attempt,
                 wakeAt, lastError, result, trace, httpSent, admitLog, entry, admitAt,
                 failedAt, startedAt>>

\* ipcMain.handle('settings:setApiKey')
SettingsSetApiKey(apiKey, written) ==
  /\ settingsReply # NoSettingsReply
  /\ IF ~written
     THEN /\ UNCHANGED <<settingsFile, glmServiceInstance, config, initialized, initResult>>
          /\ settingsReply' = SettingsReply("settings:setApiKey", NoKey, FALSE, "API_KEY_SET_FAILED")
     ELSE /\ settingsFile' = apiKey
          /\ CreateAndInitialize(apiKey)
          /\ settingsReply' =
               IF Len(config'.apiKey) = 0
               THEN SettingsReply("settings:setApiKey", apiKey, FALSE, "AI_NO_API_KEY")
               ELSE SettingsReply("settings:setApiKey", apiKey, TRUE, None)
  /\ UNCHANGED <<editor, store, ipcReply, returned, response, parse, requests, now, ticks, pc, attempt,
                 wakeAt, lastError, result, trace, httpSent, admitLog, entry, admitAt,
                 failedAt, startedAt>>

\* start-up, the settings handlers and the requests, from the start of
\* the process
SpecSettings ==
  /\ InitKeys
  /\ [][\/ AppReady
        \/ SettingsGet
        \/ \E k \in SettingsKeys \cup {NoKey} : \E w \in BOOLEAN : SettingsSet(k, w)
        \/ \E k \in SettingsKeys : \E w \in BOOLEAN : SettingsSetApiKey(k, w)
        \/ \E c \in Calls : \E j \in JitterChoices : Quiet(c) /\ CallAdmitted(c, j)
        \/ \E c \in Calls : \E o \in RateOutcomes : \E j \in JitterChoices : TransportReturns(c, o, j)
        \/ \E c \in Calls : \E j \in JitterChoices : BackoffElapsed(c, j)
        \/ AdvanceToTimer]_vars

\* ------------------------------------------------ the parser on its own
\* this.parseJSONResponse(response)
ParseResponse ==
  /\ parse = NoParse
  /\ parse' = ParseOf[response]
  /\ UNCHANGED <<glmServiceInstance, settingsFile, settingsReply, editor, store, ipcReply, returned, response, config, initialized,
                 initResult, requests, now, ticks, pc, attempt, wakeAt, lastError, result,
                 trace, httpSent, admitLog, entry, admitAt, failedAt, startedAt>>

\* this.fixIncompleteJSON(response)
RepairText ==
  /\ parse = NoParse
  /\ parse' = [fn |-> "fixIncompleteJSON", fixed |-> FixOf[response]]
  /\ UNCHANGED <<glmServiceInstance, settingsFile, settingsReply, editor, store, ipcReply, returned, response, config, initialized,
                 initResult, requests, now, ticks, pc, attempt, wakeAt, lastError, result,
                 trace, httpSent, admitLog, entry, admitAt, failedAt, startedAt>>

InitJson ==
  /\ glmServiceInstance = FALSE
  /\ InitAux(Responses)
  /\ config = NoConfig
  /\ initialized = FALSE
  /\ initResult = None
  /\ InitCalls({})

NextJson ==
  \/ ParseResponse
  \/ RepairText

\* one text, handed to parseJSONResponse or to fixIncompleteJSON
SpecJson ==
  InitJson /\ [][NextJson]_vars

\* ---------------------------------------------------- VisitScheduleEditor
\* the variables of the main process
mainProcess ==
  <<glmServiceInstance, settingsFile, settingsReply, ipcReply, returned, response, parse, config,
    initialized, initResult, requests, now, ticks, pc, attempt, wakeAt, lastError, result,
    trace, httpSent, admitLog, entry, admitAt, failedAt, startedAt>>

\* the subject files of the runs
SubjectFileLists ==
  {<< >>, <<"f1">>, <<"f1", "f2">>, <<"f2", "f1">>}

\* an element of the list a handler returned: an object, or null
Row(visitScheduleId) ==
  [null |-> FALSE, visitScheduleId |-> visitScheduleId]

NullRow ==
  [null |-> TRUE, visitScheduleId |-> None]

\* what window.electronAPI.extractSubjectNumber resolves with
NumberResults ==
  {[success |-> FALSE, data |-> ""], [success |-> TRUE, data |-> ""],
   [success |-> TRUE, data |-> "S-001"]}

\* what extractSubjectVisits and extractSubjectItems resolve with: an
\* error, or ok(parsed.visits || []) for whatever the reply held under the
\* key (a list of objects, a list holding null, or a number)
ListResults ==
  {[success |-> FALSE, isArray |-> FALSE, data |-> << >>],
   [success |-> TRUE, isArray |-> FALSE, data |-> << >>]}
  \cup {[success |-> TRUE, isArray |-> TRUE, data |-> d] :
          d \in {<< >>, <<Row("v1")>>, <<Row("v1"), Row("v2")>>, <<NullRow>>}}

\* result.data.forEach((row) => ... row.visitScheduleId ...) throws a
\* TypeError: data has no forEach, or a row is null
ForEachThrows(r) ==
  \/ ~r.isArray
  \/ \E i \in 1..Len(r.data) : r.data[i].null

\* the objects the forEach pushes
Pushed(r, subjectNumber) ==
  [i \in 1..Len(r.data) |->
     [subjectNumber |-> subjectNumber, visitScheduleId |-> r.data[i].visitScheduleId,
      aiExtracted |-> TRUE]]

\* the history of the awaited calls
Logged(e, op, r) ==
  [e EXCEPT !.calls = Append(@, [file |-> e.completedFiles[e.index], op |-> op, result |-> r])]

\* after the loop: the collected lists are stored; finally
Finish(e) ==
  [e EXCEPT !.pc = "done", !.subjectVisits = e.allSubjectVisits,
            !.subjectVisitItems = e.allSubjectVisitItems, !.showPreview = TRUE,
            !.isExtractingSubjects = FALSE]

\* catch (error) { setError(...) }; finally
Abort(e) ==
  [e EXCEPT !.pc = "done", !.lastError = "MSG_EXTRACT_FAILED", !.isExtractingSubjects = FALSE]

\* for (const file of completedFiles): the next file's first await, or
\* the end of the loop
NextFile(e) ==
  IF e.index < Len(e.completedFiles)
  THEN [e EXCEPT !.pc = "extractSubjectNumber", !.index = @ + 1]
  ELSE Finish(e)

\* handleExtractSubjectData, up to its first await
HandleExtractSubjectData(completedFiles) ==
  /\ editor.pc = "idle"
  /\ editor' = IF Len(completedFiles) = 0
               THEN [editor EXCEPT !.lastError = "MSG_CANNOT_EXTRACT"]
               ELSE NextFile([editor EXCEPT !.completedFiles = completedFiles,
                                            !.isExtractingSubjects = TRUE])
  /\ UNCHANGED <<mainProcess, store>>

\* extractSubjectNumber resolves with r
SubjectNumberReturns(r) ==
  /\ editor.pc = "extractSubjectNumber"
  /\ LET e == Logged(editor, "extractSubjectNumber", r)
     IN editor' = IF ~r.success THEN NextFile(e)
                  ELSE [e EXCEPT !.pc = "extractSubjectVisits",
                                 !.subjectNumber = IF r.data = "" THEN "SUB-now" ELSE r.data]
  /\ UNCHANGED <<mainProcess, store>>

\* extractSubjectVisits resolves with r
SubjectVisitsReturns(r) ==
  /\ editor.pc = "extractSubjectVisits"
  /\ LET e == Logged(editor, "extractSubjectVisits", r)
     IN editor' = IF ~r.success THEN [e EXCEPT !.pc = "extractSubjectItems"]
                  ELSE IF ForEachThrows(r) THEN Abort(e)
                  ELSE [e EXCEPT !.pc = "extractSubjectItems",
                                 !.allSubjectVisits = @ \o Pushed(r, e.subjectNumber)]
  /\ UNCHANGED <<mainProcess, store>>

\* extractSubjectItems resolves with r
SubjectItemsReturns(r) ==
  /\ editor.pc = "extractSubjectItems"
  /\ LET e == Logged(editor, "extractSubjectItems", r)
     IN editor' = IF ~r.success THEN NextFile(e)
                  ELSE IF ForEachThrows(r) THEN Abort(e)
                  ELSE NextFile([e EXCEPT !.allSubjectVisitItems = @ \o Pushed(r, e.subjectNumber)])
  /\ UNCHANGED <<mainProcess, store>>

\* one run of handleExtractSubjectData over the subject files
SpecBatch ==
  /\ InitKeys
  /\ [][\/ \E files \in SubjectFileLists : HandleExtractSubjectData(files)
        \/ \E r \in NumberResults : SubjectNumberReturns(r)
        \/ \E r \in ListResults : SubjectVisitsReturns(r)
        \/ \E r \in ListResults : SubjectItemsReturns(r)]_vars

\* ----------------------------------------------------------------- useStore
\* { ...a, ...b }
Spread(a, b) ==
  [f \in DOMAIN a \cup DOMAIN b |-> IF f \in DOMAIN b THEN b[f] ELSE a[f]]

\* the keys of the runs of the store, NoKey standing for undefined
StoreKeys ==
  {KeyEmpty, KeyValid, NoKey}

\* arguments of type Partial<AppSettings>: any of the two fields may be
\* missing, and a field that is there may be undefined
PartialSettings ==
  {[x \in {} |-> NoKey]}
  \cup {[apiKey |-> k] : k \in StoreKeys}
  \cup {[theme |-> t] : t \in {"dark"}}
  \cup {[apiKey |-> k, theme |-> t] : k \in StoreKeys, t \in {"dark"}}

\* useStore.setSettings
setSettings(newSettings) ==
  /\ store' = [store EXCEPT
       !.settings = Spread(store.settings, newSettings),
       !.apiKey = IF "apiKey" \in DOMAIN newSettings /\ newSettings.apiKey # NoKey
                  THEN newSettings.apiKey ELSE store.apiKey]
  /\ UNCHANGED <<mainProcess, editor>>

\* useStore.setApiKey
setApiKey(apiKey) ==
  /\ store' = [store EXCEPT !.apiKey = apiKey,
                            !.settings = Spread(store.settings, [apiKey |-> apiKey])]
  /\ UNCHANGED <<mainProcess, editor>>

\* useStore.resetSettings
resetSettings ==
  /\ store' = [store EXCEPT !.settings = DEFAULT_SETTINGS, !.apiKey = DEFAULT_SETTINGS.apiKey]
  /\ UNCHANGED <<mainProcess, editor>>

\* the setters that store their argument: setProtocolFiles,
\* setSubjectFiles, setProcessingFiles, setInclusionCriteria,
\* setExclusionCriteria, setVisitSchedule, setMedications
ListFields ==
  {"protocolFiles", "subjectFiles", "processingFiles", "inclusionCriteria",
   "exclusionCriteria", "visitSchedule", "medications"}

setList(field, list) ==
  /\ store' = [store EXCEPT ![field] = list]
  /\ UNCHANGED <<mainProcess, editor>>

\* useStore.setActiveWorksheet
setActiveWorksheet(worksheet) ==
  /\ store' = [store EXCEPT !.activeWorksheet = worksheet]
  /\ UNCHANGED <<mainProcess, editor>>

\* useStore.setProcessing
setProcessing(isProcessing, stage) ==
  /\ store' = [store EXCEPT !.isProcessing = isProcessing, !.processingStage = stage,
                            !.processingProgress = IF isProcessing THEN 0 ELSE 100]
  /\ UNCHANGED <<mainProcess, editor>>

\* useStore.setError
setError(message) ==
  /\ store' = [store EXCEPT !.lastError = message]
  /\ UNCHANGED <<mainProcess, editor>>

\* useStore.resetAll
resetAll ==
  /\ store' = [store EXCEPT
       !.protocolFiles = << >>, !.subjectFiles = << >>, !.processingFiles = << >>,
       !.inclusionCriteria = << >>, !.exclusionCriteria = << >>, !.visitSchedule = << >>,
       !.medications = << >>, !.activeWorksheet = 1, !.isProcessing = FALSE,
       !.processingStage = None, !.processingProgress = 0, !.lastError = None]
  /\ UNCHANGED <<mainProcess, editor>>

\* the actions of the store in any order
SpecStore ==
  /\ InitKeys
  /\ [][\/ \E newSettings \in PartialSettings : setSettings(newSettings)
        \/ \E k \in {KeyEmpty, KeyValid} : setApiKey(k)
        \/ resetSettings
        \/ \E field \in {"subjectFiles", "visitSchedule"} : setList(field, <<"x">>)
        \/ setActiveWorksheet(2)
        \/ setProcessing(FALSE, None)
        \/ setError("MSG_EXTRACT_FAILED")
        \/ resetAll]_vars

\* ------------------------------------------------------- truncateContent
\* truncateContent: the default of maxTokens
DefaultMaxTokens ==
  8000

\* extractSubjectNumber: truncateContent(subjectContent, 2000)
SubjectNumberMaxTokens ==
  2000

\* '\n\n[...]' around five characters outside ASCII and three dots
TruncationMarker ==
  <<"\n", "\n", "[", "U+5185", "U+5BB9", "U+5DF2", "U+622A", "U+65AD", ".", ".", ".", "]">>

\* String.prototype.substring(0, end)
SubstringFrom0(s, end) ==
  SubSeq(s, 1, IF end < 0 THEN 0 ELSE IF end > Len(s) THEN Len(s) ELSE end)

\* a truncateContent that cuts without saying so
truncateContent_NoMarker(content, maxTokens) ==
  LET maxChars == maxTokens * 2
  IN IF Len(content) <= maxChars THEN content
     ELSE SubstringFrom0(content, maxChars)

\* truncateContent(content, maxTokens)
truncateContent(content, maxTokens) ==
  LET maxChars == maxTokens * 2
  IN IF Len(content) <= maxChars THEN content
     ELSE SubstringFrom0(content, maxChars) \o TruncationMarker

\* a document of n characters
Document(n) ==
  [i \in 1..n |-> IF i % 3 = 0 THEN "c" ELSE IF i % 3 = 1 THEN "a" ELSE "b"]

\* documents around every budget of the runs
InputDocuments ==
  {Document(n) : n \in (0..9) \cup (3999..4001) \cup (15999..16001)}

\* the budgets: small ones, and the two the service passes
TokenBudgets ==
  {0, 1, 2, 3, 4, SubjectNumberMaxTokens, DefaultMaxTokens}

\* a public operation computes the document text of its prompt
TruncateContent(maxTokens) ==
  /\ parse = NoParse
  /\ parse' = [fn |-> "truncateContent", maxTokens |-> maxTokens,
               result |-> truncateContent(response, maxTokens)]
  /\ UNCHANGED <<glmServiceInstance, settingsFile, settingsReply, editor, store, ipcReply, returned, response, config,
                 initialized, initResult, requests, now, ticks, pc, attempt, wakeAt, lastError,
                 result, trace, httpSent, admitLog, entry, admitAt, failedAt, startedAt>>

\* one document, truncated to one budget
SpecTruncate ==
  /\ glmServiceInstance = FALSE
  /\ InitAux(InputDocuments)
  /\ config = NoConfig
  /\ initialized = FALSE
  /\ initResult = None
  /\ InitCalls({})
  /\ [][\E maxTokens \in TokenBudgets : TruncateContent(maxTokens)]_vars

\* ------------------------------------------------------------ operations
\* the operations of GLMService that send a prompt
Operations ==
  {"extractCriteria", "extractVisitSchedule", "recognizeMedications", "extractSubjectNumber",
   "extractSubjectVisitDates", "extractSubjectVisitItems", "testConnection"}

\* (list || []).map(fn), where fn reads members of its item and maps the
\* lists under the keys in `nested` in the same way: the flags of the
\* objects it builds, or the TypeError of a truthy list that has no map
\* method, or of a null item
RECURSIVE MapItems(_, _)
MapItems(list, nested) ==
  IF Falsy(list) THEN [threw |-> FALSE, items |-> << >>]
  ELSE IF list.k # "arr" THEN [threw |-> TRUE, items |-> << >>]
  ELSE IF \E i \in 1..Len(list.items) :
            \/ list.items[i].k = "null"
            \/ \E key \in nested : MapItems(Lookup(list.items[i], key), {}).threw
  THEN [threw |-> TRUE, items |-> << >>]
  ELSE [threw |-> FALSE, items |-> [i \in 1..Len(list.items) |-> [ai |-> TRUE, user |-> FALSE]]]

\* list || [], returned as the model wrote it: the flags its items carry
\* (a value that is not an array has no items)
RawItems(list) ==
  IF list.k # "arr" THEN << >>
  ELSE [i \in 1..Len(list.items) |->
          [ai |-> Lookup(list.items[i], <<"_", "a", "i", "E", "x", "t", "r", "a", "c", "t", "e", "d">>).k = "true",
           user |-> Lookup(list.items[i], <<"_", "u", "s", "e", "r", "E", "d", "i", "t", "e", "d">>).k = "true"]]

\* what an operation hands to its caller: a Result with the flags of its
\* items, or the exception it throws
Returned(op, threw, success, code, items) ==
  [op |-> op, threw |-> threw, success |-> success, code |-> code, items |-> items]

\* the code of an operation that follows parseJSONResponse, whose Result
\* is p
Transform(op, p) ==
  LET inclusionCriteria == MapItems(Lookup(p.data, <<"i", "n", "c", "l", "u", "s", "i", "o", "n", "C", "r", "i", "t", "e", "r", "i", "a">>), {})
      exclusionCriteria == MapItems(Lookup(p.data, <<"e", "x", "c", "l", "u", "s", "i", "o", "n", "C", "r", "i", "t", "e", "r", "i", "a">>), {})
      visitSchedule == MapItems(Lookup(p.data, <<"v", "i", "s", "i", "t", "S", "c", "h", "e", "d", "u", "l", "e">>), {<<"p", "r", "o", "c", "e", "d", "u", "r", "e", "s">>, <<"a", "s", "s", "e", "s", "s", "m", "e", "n", "t", "s">>})
      medications == MapItems(Lookup(p.data, <<"m", "e", "d", "i", "c", "a", "t", "i", "o", "n", "s">>), {})
  IN IF ~p.success THEN Returned(op, FALSE, FALSE, p.code, << >>)
     ELSE CASE op = "extractCriteria" ->
                 IF inclusionCriteria.threw \/ exclusionCriteria.threw
                 THEN Returned(op, TRUE, FALSE, None, << >>)
                 ELSE Returned(op, FALSE, TRUE, None, inclusionCriteria.items \o exclusionCriteria.items)
            [] op = "extractVisitSchedule" ->
                 IF visitSchedule.threw THEN Returned(op, TRUE, FALSE, None, << >>)
                 ELSE Returned(op, FALSE, TRUE, None, visitSchedule.items)
            [] op = "recognizeMedications" ->
                 IF medications.threw THEN Returned(op, TRUE, FALSE, None, << >>)
                 ELSE Returned(op, FALSE, TRUE, None, medications.items)
            [] op = "extractSubjectNumber" -> Returned(op, FALSE, TRUE, None, << >>)
            [] op = "extractSubjectVisitDates" ->
                 Returned(op, FALSE, TRUE, None, RawItems(Lookup(p.data, <<"v", "i", "s", "i", "t", "s">>)))
            [] op = "extractSubjectVisitItems" ->
                 Returned(op, FALSE, TRUE, None, RawItems(Lookup(p.data, <<"i", "t", "e", "m", "s">>)))

\* the code of an operation after `await this.callWithRetry(...)`, for the
\* Result r that callWithRetry returned
Returns(op, r) ==
  IF ~r.success THEN Returned(op, FALSE, FALSE, r.code, << >>)
  ELSE IF op = "testConnection" THEN Returned(op, FALSE, TRUE, None, << >>)
  ELSE Transform(op, ParseOf[r.data])

\* the invocation of callWithRetry has returned, and the operation that
\* made it returns to its caller or throws
OperationReturns(c, op) ==
  /\ pc[c] = "done"
  /\ returned[c] = NotReturned
  /\ returned' = [returned EXCEPT ![c] = Returns(op, result[c])]
  /\ UNCHANGED <<glmServiceInstance, settingsFile, settingsReply, editor, store, ipcReply, response, parse, config, initialized, initResult, requests, now,
                 ticks, pc, attempt, wakeAt, lastError, result, trace, httpSent, admitLog, entry,
                 admitAt, failedAt, startedAt>>

NextExtract ==
  \/ initialize
  \/ \E c \in Calls : CallNotInitialized(c)
  \/ \E c \in Calls : \E j \in JitterChoices : CallAdmitted(c, j)
  \/ \E c \in Calls : \E o \in AllOutcomes \cup {OkOutcome(text) : text \in ExtractTexts} :
       \E j \in JitterChoices : TransportReturns(c, o, j)
  \/ \E c \in Calls : \E j \in JitterChoices : BackoffElapsed(c, j)
  \/ AdvanceToTimer
  \/ \E c \in Calls : \E op \in Operations : OperationReturns(c, op)

\* one operation, every transport outcome and every response text
SpecExtract ==
  InitRetry /\ [][NextExtract]_vars

\* ----------------------------------------------------------------- claims
\* the timestamps recorded in the trailing window that ends at instant t
AdmittedIn(t) ==
  {i \in 1..Len(admitLog) : admitLog[i] > t - WindowMs /\ admitLog[i] <= t}

\* C1: with requests issued one at a time, at every instant the number of
\* timestamps waitForSlot recorded in the trailing 60,000 ms is at most
\* maxRequests (the count can only rise at an instant of admission, so
\* those are the instants examined).
C1_SequentialWindowBound ==
  \A i \in 1..Len(admitLog) : Cardinality(AdmittedIn(admitLog[i])) <= maxRequests

\* C1 witness: a request found the window full, waited and was admitted
C1_Witness ==
  \E c \in Calls : entry[c].full /\ admitAt[c] >= 0 /\ Len(admitLog) > maxRequests

\* C2: under concurrent requests no trailing 60,000 ms window holds more
\* than maxRequests recorded timestamps.
C2_ConcurrentWindowBound ==
  \A c \in Calls :
    admitAt[c] >= 0 => Cardinality(AdmittedIn(admitAt[c])) <= maxRequests

\* C3: a request that finds the window full is delayed, not rejected: it
\* holds no result while it waits, and it is eventually admitted and back
\* in callWithRetry.
C3_DelayedNotRejected ==
  /\ [](\A c \in Calls : pc[c] = "slotWait" => result[c] = Pending /\ admitAt[c] = -1)
  /\ \A c \in Calls : (pc[c] = "slotWait") ~> (admitAt[c] >= 0 /\ pc[c] \in {"attempt", "done"})

\* C3 witness: a delayed request has been admitted and has its answer
C3_Witness ==
  \E c \in Calls : entry[c].full /\ pc[c] = "done" /\ result[c].success

\* C4: a request that enters waitForSlot when the list holds maxRequests
\* timestamps inside the window records its own timestamp, and starts its
\* first attempt, no earlier than 60,000 ms after the oldest of them.
C4_FullWindowDelay ==
  \A c \in Calls :
    entry[c].full =>
      /\ admitAt[c] >= 0 => admitAt[c] >= entry[c].oldest + WindowMs
      /\ startedAt[c] >= 0 => startedAt[c] >= entry[c].oldest + WindowMs
      /\ pc[c] = "slotWait" => wakeAt[c] >= entry[c].oldest + WindowMs

\* C4 witness: such a request is running its first attempt
C4_Witness ==
  \E c \in Calls : entry[c].full /\ pc[c] = "attempt" /\ attempt[c] = 0 /\ httpSent[c] = 1

\* the answer to the latest fn() call of request c
LastAnswer(c) ==
  trace[c][Len(trace[c])]

IsStatus(l, statuses) ==
  l.kind = "http" /\ l.status \in statuses

IsReset(l) ==
  l.kind = "neterr" /\ l.code = "ECONNRESET"

\* connection reset, timeout, DNS failure, HTTP 5xx
IsNetworkClass(l) ==
  l.kind \in {"neterr", "timeout"} \/ IsStatus(l, 500..599)

\* C5: an HTTP 401 or 403 answer ends the request at once: no attempt and
\* no backoff wait follows it, the result is AI_AUTH_FAILED with severity
\* critical, and when it answers the first attempt exactly one request
\* was sent.
C5_AuthNoRetry ==
  \A c \in Calls : \A i \in 1..Len(trace[c]) :
    IsStatus(trace[c][i], {401, 403}) =>
      /\ i = Len(trace[c])
      /\ pc[c] = "done"
      /\ result[c].success = FALSE
      /\ result[c].code = "AI_AUTH_FAILED"
      /\ result[c].severity = "critical"
      /\ i = 1 => httpSent[c] = 1

\* C5 witness: a first attempt answered 403 and the request returned
C5_Witness ==
  \E c \in Calls :
    /\ Len(trace[c]) = 1
    /\ IsStatus(trace[c][1], {403})
    /\ pc[c] = "done"
    /\ httpSent[c] = 1

\* C6: an HTTP 400 answer ends the request with AI_BAD_REQUEST in the
\* domain category, after exactly one attempt when it answers the first.
C6_BadRequestOnce ==
  \A c \in Calls :
    Len(trace[c]) >= 1 /\ IsStatus(LastAnswer(c), {400}) =>
      /\ pc[c] = "done"
      /\ result[c].code = "AI_BAD_REQUEST"
      /\ result[c].category = "domain"
      /\ Len(trace[c]) = 1 => httpSent[c] = 1

\* C7: against a transport that resets the connection f times and then
\* succeeds, the request makes min(maxRetries, f + 1) calls: a success is
\* the last call and gives Ok with its content; after n resets the request
\* goes on exactly while n < maxRetries, and at n = maxRetries it returns
\* AI_REQUEST_FAILED.
C7_RetryCount ==
  \A c \in Calls :
    LET t == trace[c]
        n == Len(t)
    IN /\ \A i \in 1..n : t[i].kind = "ok" =>
            /\ i = n
            /\ pc[c] = "done"
            /\ result[c] = Ok(t[i].content)
       /\ (n >= 1 /\ \A i \in 1..(n - 1) : IsReset(t[i])) /\ t[n].kind = "ok" =>
            /\ n <= config.maxRetries
            /\ httpSent[c] = n
       /\ (n >= 1 /\ \A i \in 1..n : IsReset(t[i])) =>
            /\ n <= config.maxRetries
            /\ httpSent[c] \in {n, n + 1}
            /\ n < config.maxRetries => pc[c] \in {"backoff", "attempt"}
            /\ n = config.maxRetries =>
                 /\ pc[c] = "done"
                 /\ httpSent[c] = n
                 /\ result[c].success = FALSE
                 /\ result[c].code = "AI_REQUEST_FAILED"

\* C7 witness: maxRetries = 3, two resets, then a success
C7_Witness ==
  \E c \in Calls :
    /\ config.maxRetries = 3
    /\ Len(trace[c]) = 3
    /\ IsReset(trace[c][1]) /\ IsReset(trace[c][2]) /\ trace[c][3].kind = "ok"
    /\ result[c].success
    /\ httpSent[c] = 3

\* C8: the wait after failed attempt k is at least 1000 * 2^k and less
\* than 1000 * 2^k + 500 ms, attempt k + 1 starts no sooner than
\* 1000 * 2^k ms after attempt k failed, and the last permitted attempt is
\* followed by no wait.
C8_BackoffDelay ==
  \A c \in Calls :
    /\ pc[c] = "backoff" =>
         /\ attempt[c] < config.maxRetries - 1
         /\ wakeAt[c] - failedAt[c] >= 1000 * (2 ^ attempt[c])
         /\ wakeAt[c] - failedAt[c] < 1000 * (2 ^ attempt[c]) + 500
    /\ pc[c] = "attempt" /\ attempt[c] >= 1 =>
         startedAt[c] - failedAt[c] >= 1000 * (2 ^ (attempt[c] - 1))
    /\ Len(trace[c]) >= config.maxRetries => pc[c] = "done"

\* C8 witness: the third attempt runs, started after its 2000 ms wait
C8_Witness ==
  \E c \in Calls :
    /\ pc[c] = "attempt"
    /\ attempt[c] = 2
    /\ failedAt[c] >= 0
    /\ startedAt[c] - failedAt[c] >= 2000

\* C9: a network-class failure is never turned into AI_AUTH_FAILED or
\* AI_BAD_REQUEST and never ends the request while attempts remain.
C9_NetworkClassRetried ==
  \A c \in Calls :
    Len(trace[c]) >= 1 /\ IsNetworkClass(LastAnswer(c)) =>
      /\ result[c].code \notin {"AI_AUTH_FAILED", "AI_BAD_REQUEST"}
      /\ Len(trace[c]) < config.maxRetries => pc[c] # "done"

\* C10: a failure that is neither 401/403, nor 400, nor network-class ends
\* the request with AI_REQUEST_FAILED and is not retried.
C10_OtherFailuresNotRetried ==
  \A c \in Calls :
    (/\ Len(trace[c]) >= 1
     /\ \/ LastAnswer(c).kind \in {"empty", "badjson"}
        \/ IsStatus(LastAnswer(c), {404, 429})) =>
      /\ pc[c] = "done"
      /\ result[c].code = "AI_REQUEST_FAILED"
      /\ Len(trace[c]) = 1 => httpSent[c] = 1

\* the user message callWithRetry documents for a socket error code
MessageFor(code) ==
  CASE code = "ECONNRESET" -> "MSG_CONNECTION_RESET"
    [] code = "ETIMEDOUT" -> "MSG_TIMEOUT"
    [] code = "ENOTFOUND" -> "MSG_DNS"

\* C11: a request whose every attempt ended in a socket error (ECONNRESET,
\* ETIMEDOUT or ENOTFOUND) and that exhausted its attempts returns
\* AI_REQUEST_FAILED with the user message of the last error's code, which
\* is not the generic network message.
C11_ExhaustedMessageByCode ==
  \A c \in Calls :
    (/\ pc[c] = "done"
     /\ Len(trace[c]) = config.maxRetries
     /\ \A i \in 1..Len(trace[c]) : trace[c][i].kind = "neterr") =>
      /\ result[c].code = "AI_REQUEST_FAILED"
      /\ result[c].userMessage = MessageFor(LastAnswer(c).code)
      /\ result[c].userMessage # "MSG_NETWORK_GENERIC"

\* C12: without a credential nothing reaches the network. (a) With an
\* empty key the service is never initialized, and initialize() answers
\* AI_NO_API_KEY. (b) A call made while the service is not initialized
\* returns AI_NOT_INITIALIZED in the same step, with no attempt, no HTTPS
\* request and the rate limiter's list as it was. (c) While no service
\* exists no call has started, and an ai:* handler replies
\* AI_NOT_INITIALIZED and touches neither the requests nor the window.
C12_NoCredentialNoNetwork ==
  /\ [](glmServiceInstance /\ Len(config.apiKey) = 0 =>
          ~initialized /\ initResult \in {None, "AI_NO_API_KEY"})
  /\ [](initResult = "AI_NO_API_KEY" => ~initialized)
  /\ [][\A c \in Calls :
          (pc[c] = "idle" /\ pc'[c] # "idle" /\ ~initialized) =>
            /\ pc'[c] = "done"
            /\ result'[c].success = FALSE
            /\ result'[c].code = "AI_NOT_INITIALIZED"
            /\ trace'[c] = << >>
            /\ httpSent' = httpSent
            /\ requests' = requests
            /\ admitLog' = admitLog]_vars
  /\ [](\A c \in Calls :
          result[c].code = "AI_NOT_INITIALIZED" =>
            httpSent[c] = 0 /\ trace[c] = << >> /\ admitAt[c] = -1)
  /\ [](~glmServiceInstance =>
          /\ \A c \in Calls : pc[c] \in {"idle", "unused"} /\ httpSent[c] = 0
          /\ requests = << >>)
  /\ [](ipcReply # NoReply =>
          /\ ipcReply.channel \in AiChannels
          /\ ipcReply.success = FALSE
          /\ ipcReply.code = "AI_NOT_INITIALIZED")
  /\ [][ipcReply' # ipcReply =>
          /\ ~glmServiceInstance /\ ~glmServiceInstance'
          /\ pc' = pc /\ httpSent' = httpSent /\ requests' = requests]_vars

\* C12 witness: a handler replied before the service existed; later the
\* key was cleared, and a call was refused while the window held a request
C12_Witness ==
  /\ ipcReply.channel = "ai:extractSubjectItems"
  /\ initResult = "AI_NO_API_KEY"
  /\ Len(requests) > 0
  /\ \E c \in Calls : result[c].code = "AI_NOT_INITIALIZED"

\* C13: with a credential that has no '.', a call that reaches callAPI ends
\* in the same step with an error Result and without an HTTPS request; an
\* HTTPS request is only ever written while the credential holds a '.';
\* and an attempt that callAPI refuses before writing is never followed by
\* another attempt.
C13_MalformedKeyFailsFast ==
  /\ [][\A c \in Calls :
          (/\ initialized
           /\ ~Includes(config.apiKey, <<".">>)
           /\ pc[c] \in {"idle", "backoff"}
           /\ pc'[c] # pc[c]) =>
            /\ pc'[c] = "done"
            /\ result'[c].success = FALSE
            /\ result'[c].code = "AI_REQUEST_FAILED"
            /\ httpSent'[c] = httpSent[c]
            /\ trace'[c][Len(trace'[c])].kind = "local"]_vars
  /\ [][\A c \in Calls :
          httpSent'[c] > httpSent[c] => Includes(config.apiKey, <<".">>)]_vars
  /\ [](\A c \in Calls : \A i \in 1..Len(trace[c]) :
          trace[c][i].kind = "local" =>
            /\ i = Len(trace[c])
            /\ pc[c] = "done"
            /\ result[c].success = FALSE)

\* C13 witness: the service was initialized with the key `ab`, and a call
\* came back after one refused attempt and no request
C13_Witness ==
  \E c \in Calls :
    /\ config.apiKey = KeyNoDot
    /\ config.maxRetries = 2
    /\ initialized
    /\ pc[c] = "done"
    /\ trace[c] = <<Label(LocalOutcome)>>
    /\ httpSent[c] = 0
    /\ result[c].code = "AI_REQUEST_FAILED"

\* the codes of the error taxonomy
Taxonomy ==
  {"AI_NOT_INITIALIZED", "AI_AUTH_FAILED", "AI_BAD_REQUEST", "AI_REQUEST_FAILED", "AI_PARSE_FAILED"}

\* C14: every operation returns a Result, it never throws, and the code of
\* an error Result is one of the five codes of the taxonomy.
C14_ResultNeverException ==
  \A c \in Calls :
    returned[c] # NotReturned =>
      /\ ~returned[c].threw
      /\ ~returned[c].success => returned[c].code \in Taxonomy

\* C20: every item of a successful result of the five operations that
\* return items has the AI flag set and no user flag set.
C20_ItemsStamped ==
  \A c \in Calls :
    (/\ returned[c].op \in {"extractCriteria", "extractVisitSchedule", "recognizeMedications",
                            "extractSubjectVisitDates", "extractSubjectVisitItems"}
     /\ returned[c].success) =>
      \A i \in 1..Len(returned[c].items) : returned[c].items[i].ai /\ ~returned[c].items[i].user

\* T is J with a non-empty suffix dropped
IsTruncationOf(T, J) ==
  Len(T) >= 1 /\ Len(T) < Len(J) /\ SubSeq(J, 1, Len(T)) = T

\* the top-level members of document J that are complete in its
\* truncation T: a prefix of T, closed with `}`, parses with the member as
\* J has it
CompleteFields(T, J) ==
  LET whole == JSONParse(J).v
  IN {k \in {whole.keys[i] : i \in 1..Len(whole.keys)} :
        \E m \in 1..Len(T) :
          LET part == JSONParse(SubSeq(T, 1, m) \o <<"}">>)
          IN part.ok /\ Lookup(part.v, k) = Lookup(whole, k)}

\* C15: for every document J and every truncation T of it,
\* fixIncompleteJSON(T) is accepted by JSON.parse, and the value has every
\* top-level member that was complete in T, with the value it has in J.
C15_RepairRoundTrip ==
  \A J \in Documents :
    (parse.fn = "fixIncompleteJSON" /\ IsTruncationOf(response, J)) =>
      LET r == JSONParse(parse.fixed)
      IN /\ r.ok
         /\ \A k \in CompleteFields(response, J) : Lookup(r.v, k) = Lookup(JSONParse(J).v, k)

\* the response of the scenario: an object truncated inside its array,
\* after a comma
ScenarioText ==
  <<"{", "\"", "a", "\"", ":", " ", "1", ",", " ", "\"", "b", "\"", ":", " ", "[", "1", ",", " ", "2", ",">>

\* C16: for the response `{"a": 1, "b": [1, 2,` parseJSONResponse returns
\* Ok with a value whose a is 1 and whose b is absent or [1, 2].
C16_TruncatedArrayScenario ==
  (response = ScenarioText /\ parse.fn = "parseJSONResponse") =>
    /\ parse.success
    /\ Lookup(parse.data, <<"a">>) = Value("num", <<"1">>, << >>, << >>)
    /\ Lookup(parse.data, <<"b">>) \in
         {Undefined,
          Value("arr", << >>, << >>,
                <<Value("num", <<"1">>, << >>, << >>), Value("num", <<"2">>, << >>, << >>)>>)}

\* C17: for a text that JSON.parse accepts, fixIncompleteJSON returns the
\* text or a text that parses to the same value, and parseJSONResponse
\* returns Ok with the value of the text, without a repair.
C17_ValidInputKept ==
  LET strict == JSONParse(response)
  IN strict.ok =>
       /\ parse.fn = "fixIncompleteJSON" =>
            \/ parse.fixed = response
            \/ JSONParse(parse.fixed).ok /\ JSONParse(parse.fixed).v = strict.v
       /\ parse.fn = "parseJSONResponse" =>
            parse.success /\ parse.repairs = 0 /\ parse.data = strict.v

\* the text has an opener followed, after its end, by a fence
HasBlock(text, open) ==
  \E i \in Occurrences(text, open) : \E c \in Occurrences(text, Fence) : c >= i + Len(open)

\* body is text[from..to] without the white space at its two ends
IsTrimOf(body, text, from, to) ==
  \E x \in from..(to + 1) : \E y \in (x - 1)..to :
    /\ body = SubSeq(text, x, y)
    /\ \A m \in from..(x - 1) : text[m] \in Spaces
    /\ \A m \in (y + 1)..to : text[m] \in Spaces
    /\ x <= y => text[x] \notin Spaces /\ text[y] \notin Spaces

\* body is what stands between the first opener that a fence follows and
\* the first fence after it
IsBlockBody(body, text, open) ==
  \E i \in Occurrences(text, open) : \E c \in Occurrences(text, Fence) :
    /\ c >= i + Len(open)
    /\ \A h \in Occurrences(text, open) : h < i => ~\E d \in Occurrences(text, Fence) : d >= h + Len(open)
    /\ \A d \in Occurrences(text, Fence) : d >= i + Len(open) => c <= d
    /\ IsTrimOf(body, text, i + Len(open), c - 1)

\* C18: the text that is parsed is the body of the first ```json block
\* when the response has one; else the body of the first ``` block when it
\* has one; else the span from the first `{` to the last `}` when there is
\* one; else the whole response.
C18_SelectionPrecedence ==
  parse.fn = "parseJSONResponse" =>
    LET json == HasBlock(response, JsonFence)
        code == HasBlock(response, Fence)
        span == \E a \in 1..Len(response) : \E b \in (a + 1)..Len(response) :
                  response[a] = "{" /\ response[b] = "}"
    IN /\ json => parse.rule = "json" /\ IsBlockBody(parse.jsonStr, response, JsonFence)
       /\ ~json /\ code => parse.rule = "code" /\ IsBlockBody(parse.jsonStr, response, Fence)
       /\ ~json /\ ~code /\ span =>
            /\ parse.rule = "object"
            /\ \E a \in 1..Len(response) : \E b \in (a + 1)..Len(response) :
                 /\ response[a] = "{" /\ response[b] = "}"
                 /\ \A m \in 1..(a - 1) : response[m] # "{"
                 /\ \A m \in (b + 1)..Len(response) : response[m] # "}"
                 /\ parse.jsonStr = SubSeq(response, a, b)
       /\ ~json /\ ~code /\ ~span => parse.rule = "whole" /\ parse.jsonStr = response

\* C18 witness: an object, then a ``` block, then a ```json block: the
\* last one was parsed
C18_Witness ==
  /\ parse.fn = "parseJSONResponse"
  /\ HasBlock(response, JsonFence)
  /\ \E i \in Occurrences(response, Fence) : i < Least(Occurrences(response, JsonFence))
  /\ parse.rule = "json"
  /\ parse.success
  /\ Lookup(parse.data, <<"a">>) = Value("num", <<"1">>, << >>, << >>)

\* C19: the selected text is parsed; only if JSON.parse rejects it is it
\* repaired, once, and the repaired text parsed; only if JSON.parse rejects
\* that too is the result AI_PARSE_FAILED, with an excerpt that is a
\* prefix of the response of at most 1000 characters.
C19_ThreeStepProtocol ==
  parse.fn = "parseJSONResponse" =>
    LET strict == JSONParse(parse.jsonStr)
        again == JSONParse(fixIncompleteJSON(parse.jsonStr))
    IN /\ parse.repairs <= 1
       /\ parse.parses = parse.repairs + 1
       /\ strict.ok => parse.repairs = 0 /\ parse.success /\ parse.data = strict.v
       /\ ~strict.ok => parse.repairs = 1 /\ parse.fixed = fixIncompleteJSON(parse.jsonStr)
       /\ ~strict.ok /\ again.ok => parse.success /\ parse.data = again.v
       /\ ~strict.ok /\ ~again.ok =>
            /\ parse.success = FALSE
            /\ parse.code = "AI_PARSE_FAILED"
            /\ Len(parse.excerpt) <= 1000
            /\ parse.excerpt = SubSeq(response, 1, Len(parse.excerpt))

\* C22: once waitForSlot has returned, the stored list holds at most
\* maxRequests timestamps, all of them within the 60,000 ms that end at
\* the last one recorded.
C22_WindowBoundedList ==
  (Len(requests) > 0 /\ \A c \in Calls : pc[c] # "slotWait") =>
    /\ Len(requests) <= maxRequests
    /\ \A i \in 1..Len(requests) : requests[i] > requests[Len(requests)] - WindowMs

C29_InitializedOnlyWithKey ==
  /\ [](initialized => Len(config.apiKey) # 0)
  /\ [][(glmServiceInstance /\ config'.apiKey # config.apiKey) =>
          /\ initialized' = (Len(config'.apiKey) # 0)
          /\ initResult' = (IF Len(config'.apiKey) = 0 THEN "AI_NO_API_KEY" ELSE "ok")]_vars
  /\ [][(config' # config \/ initialized' # initialized \/ initResult' # initResult) =>
          requests' = requests /\ admitLog' = admitLog]_vars
  /\ [][\A c \in Calls :
          (~initialized /\ pc[c] = "idle" /\ pc'[c] # "idle") =>
            pc'[c] = "done" /\ result'[c].code = "AI_NOT_INITIALIZED"]_vars

\* C29 witness: the first call was answered by the server, then the key
\* was replaced by the empty one, and the second call was refused
C29_Witness ==
  /\ Len(config.apiKey) = 0
  /\ ~initialized
  /\ initResult = "AI_NO_API_KEY"
  /\ result[1].success
  /\ result[2].code = "AI_NOT_INITIALIZED"
  /\ Len(requests) = 1

\* the containers of s that are open at its end, outermost first (a
\* bracket inside a string literal opens nothing)
RECURSIVE OpenContainers(_, _, _, _)
OpenContainers(s, i, inString, stack) ==
  IF i > Len(s) THEN stack
  ELSE IF inString THEN OpenContainers(s, i + 1, s[i] # "\"", stack)
  ELSE IF s[i] = "\"" THEN OpenContainers(s, i + 1, TRUE, stack)
  ELSE IF s[i] \in {"{", "["} THEN OpenContainers(s, i + 1, FALSE, Append(stack, s[i]))
  ELSE IF s[i] \in {"}", "]"} /\ Len(stack) > 0
  THEN OpenContainers(s, i + 1, FALSE, SubSeq(stack, 1, Len(stack) - 1))
  ELSE OpenContainers(s, i + 1, FALSE, stack)

\* C23: the last step appends max(0, #'[' - #']') times `]` and then
\* max(0, #'{' - #'}') times `}`, counting every occurrence in the text it
\* receives, and nothing more; and for a truncated document whose
\* innermost open container is an array, what it appends closes the open
\* containers innermost first.
C23_ClosersAppended ==
  parse.fn = "fixIncompleteJSON" =>
    LET before == DropTrailingProperty(CloseString(RemoveTrailingCommas(response)))
        N(ch) == Cardinality({i \in 1..Len(before) : before[i] = ch})
        brackets == IF N("[") > N("]") THEN N("[") - N("]") ELSE 0
        braces == IF N("{") > N("}") THEN N("{") - N("}") ELSE 0
        open == OpenContainers(before, 1, FALSE, << >>)
        suffix == SubSeq(parse.fixed, Len(before) + 1, Len(parse.fixed))
    IN /\ parse.fixed = before \o [i \in 1..brackets |-> "]"] \o [i \in 1..braces |-> "}"]
       /\ (response \in Truncations /\ Len(open) > 0 /\ open[Len(open)] = "[") =>
            suffix = [i \in 1..Len(open) |->
                        IF open[Len(open) + 1 - i] = "[" THEN "]" ELSE "}"]

\* C25: a call makes at most maxRetries attempts and waits for at most
\* maxRetries - 1 backoffs, and once it has started an attempt it reaches
\* its Result.
C25_CallTerminates ==
  /\ [](\A c \in Calls :
          /\ Len(trace[c]) <= config.maxRetries
          /\ httpSent[c] <= config.maxRetries
          /\ pc[c] = "attempt" => attempt[c] <= config.maxRetries - 1
          /\ pc[c] = "backoff" => attempt[c] + 1 <= config.maxRetries - 1)
  /\ \A c \in Calls :
       (pc[c] \in {"attempt", "backoff"}) ~> (pc[c] = "done" /\ result[c] # Pending)

\* C25 witness: a call has returned after maxRetries = 3 attempts and two
\* backoff waits
C25_Witness ==
  \E c \in Calls :
    /\ config.maxRetries = 3
    /\ Len(trace[c]) = 3
    /\ attempt[c] = 3
    /\ pc[c] = "done"
    /\ result[c].code = "AI_REQUEST_FAILED"


\* C27: whatever the interleaving of waitForSlot and reset calls, the
\* stored timestamps are in non-decreasing order, so the element at index
\* 0 is the oldest one.
C27_RequestsOrdered ==
  /\ \A i \in 1..Len(requests) : \A j \in i..Len(requests) : requests[i] <= requests[j]
  /\ Len(requests) > 0 => requests[1] = MinOf(requests)

\* C27 witness: after a reset, two requests were recorded at different
\* times, the second of them by a caller that had waited
C27_Witness ==
  /\ Len(requests) = 2
  /\ requests[1] < requests[2]
  /\ Len(admitLog) > Len(requests)
  /\ \E c \in Calls : entry[c].full /\ admitAt[c] = requests[2]


C24_TruncatedToBudget ==
  parse.fn = "truncateContent" =>
    LET n == 2 * parse.maxTokens
        r == parse.result
    IN IF Len(response) <= n
       THEN r = response
       ELSE /\ Len(r) = n + Len(TruncationMarker)
            /\ SubSeq(r, 1, n) = SubSeq(response, 1, n)
            /\ SubSeq(r, n + 1, Len(r)) = TruncationMarker

\* C24 witness: a document one character over the budget of
\* extractSubjectNumber was cut
C24_Witness ==
  /\ parse.fn = "truncateContent"
  /\ parse.maxTokens = SubjectNumberMaxTokens
  /\ Len(response) = 2 * SubjectNumberMaxTokens + 1
  /\ parse.result # response


\* the calls of the run for one operation
CallsOf(op) ==
  SelectSeq(editor.calls, LAMBDA c : c.op = op)

\* the number of rows the successful calls of one operation returned
RowsOf(op) ==
  LET calls == CallsOf(op)
      Sum[i \in 0..Len(calls)] ==
        IF i = 0 THEN 0
        ELSE Sum[i - 1] + (IF calls[i].result.success THEN Len(calls[i].result.data) ELSE 0)
  IN Sum[Len(calls)]

\* C21: when the batch has ended, every file was visited once and in
\* order; a file whose subject number failed had no further call, every
\* other file had its visits call and then its items call whatever the
\* visits call returned; and what the successful calls returned is stored.
C21_BatchNeverAborted ==
  editor.pc = "done" =>
    LET calls == editor.calls
        numbers == CallsOf("extractSubjectNumber")
    IN /\ Len(numbers) = Len(editor.completedFiles)
       /\ \A i \in 1..Len(numbers) : numbers[i].file = editor.completedFiles[i]
       /\ \A i \in 1..Len(calls) :
            calls[i].op = "extractSubjectNumber" =>
              IF calls[i].result.success
              THEN /\ i + 2 <= Len(calls)
                   /\ calls[i + 1].op = "extractSubjectVisits"
                   /\ calls[i + 1].file = calls[i].file
                   /\ calls[i + 2].op = "extractSubjectItems"
                   /\ calls[i + 2].file = calls[i].file
              ELSE i = Len(calls) \/ calls[i + 1].op = "extractSubjectNumber"
       /\ editor.showPreview
       /\ Len(editor.subjectVisits) = RowsOf("extractSubjectVisits")
       /\ Len(editor.subjectVisitItems) = RowsOf("extractSubjectItems")


\* C30: in every state of the store apiKey equals settings.apiKey, and
\* resetAll clears the files, the worksheet data, the processing state
\* and the error while it keeps settings and apiKey.
C30_ApiKeyMirrorsSettings ==
  /\ [](store.apiKey = store.settings.apiKey)
  /\ [][resetAll =>
          /\ store' = [InitialStore EXCEPT !.settings = store.settings, !.apiKey = store.apiKey]
          /\ store'.settings = store.settings
          /\ store'.apiKey = store.apiKey]_vars
====
